---- MODULE Spec2Model ----
(***************************************************************************)
(* CacheMaster: the cache engine (CacheEngine), its three replacement      *)
(* policies (LRUPolicy, LFUPolicy, FIFOPolicy) and the statistics tracker. *)
(*                                                                         *)
(* The linked lists of the policies are modelled at pointer level: every   *)
(* node is named by its key (the policies keep exactly one node per key in *)
(* their `cache` index) and carries prev/next references, Nil for null.    *)
(* The engine's primary map is a JavaScript Map, whose iteration order is  *)
(* insertion order: it is modelled as a sequence of entries.               *)
(***************************************************************************)
EXTENDS Integers, Sequences, FiniteSets, TLC

----------------------------------------------------------------------------
(* Bounds of the model *)

\* largest value of the clock (Date.now())
MaxTime == 3
\* largest total of hits + misses + evictions + expirations since a reset
MaxStatEvents == 2
\* largest frequency an LFU node may reach in the engine
MaxFrequency == 2
\* largest frequency an LFU node may reach in a bare policy
MaxPolicyFrequency == 3
\* largest number stored by INCREMENT
MaxNumber == 2
\* longest batch
MaxBatch == 2

\* keys used against the engine, and the keys used against a bare policy
EngineKeys == {"a", "b"}
PolicyKeys == {"a", "b", "c", "d"}
Keys == EngineKeys \cup PolicyKeys

\* null / undefined reference
Nil == "null"

----------------------------------------------------------------------------
(* Generic helpers for JavaScript Maps modelled as functions *)

MapPut(f, k, v) == [x \in (DOMAIN f) \cup {k} |-> IF x = k THEN v ELSE f[x]]

MapDel(f, k) == [x \in (DOMAIN f) \ {k} |-> f[x]]

EmptyMap == [x \in {} |-> Nil]

\* this.cache.set(key, newNode) and this.cache.delete(key) of a policy
Cache_set(p, k, frequency) ==
    [p EXCEPT !.cache = MapPut(p.cache, k,
                               [prev |-> Nil, next |-> Nil, frequency |-> frequency])]

Cache_delete(p, k) == [p EXCEPT !.cache = MapDel(p.cache, k)]

\* the result of a policy call that evicted nothing
NoEviction(p) == [pol |-> p, key |-> Nil]

----------------------------------------------------------------------------
(* LRUPolicy: head = most recently used, tail = least recently used *)

LRU_new(capacity) ==
    [kind |-> "LRU", capacity |-> capacity, cache |-> EmptyMap,
     head |-> Nil, tail |-> Nil, frequencyMap |-> EmptyMap, minFrequency |-> 0]

\* removeNode that leaves this.tail alone
List_removeNode_keepTail(p, k) ==
    LET n == p.cache[k]
        c1 == IF n.prev # Nil THEN [p.cache EXCEPT ![n.prev].next = n.next] ELSE p.cache
        h1 == IF n.prev # Nil THEN p.head ELSE n.next
        c2 == IF n.next # Nil THEN [c1 EXCEPT ![n.next].prev = n.prev] ELSE c1
    IN [p EXCEPT !.cache = c2, !.head = h1]

\* removeNode of LRUPolicy and FIFOPolicy (the two are the same code)
List_removeNode(p, k) ==
    LET n == p.cache[k]
        c1 == IF n.prev # Nil THEN [p.cache EXCEPT ![n.prev].next = n.next] ELSE p.cache
        h1 == IF n.prev # Nil THEN p.head ELSE n.next
        c2 == IF n.next # Nil THEN [c1 EXCEPT ![n.next].prev = n.prev] ELSE c1
        t1 == IF n.next # Nil THEN p.tail ELSE n.prev
    IN [p EXCEPT !.cache = c2, !.head = h1, !.tail = t1]

LRU_addToHead(p, k) ==
    LET c1 == [p.cache EXCEPT ![k] = [@ EXCEPT !.next = p.head, !.prev = Nil]]
        c2 == IF p.head # Nil THEN [c1 EXCEPT ![p.head].prev = k] ELSE c1
    IN [p EXCEPT !.cache = c2, !.head = k,
                 !.tail = IF p.tail = Nil THEN k ELSE p.tail]

LRU_moveToHead(p, k) == LRU_addToHead(List_removeNode(p, k), k)

LRU_evictLRU(p) ==
    IF p.tail = Nil THEN NoEviction(p)
    ELSE [pol |-> Cache_delete(List_removeNode(p, p.tail), p.tail), key |-> p.tail]

\* the second half of set for a new key: ev is the outcome of the capacity check
LRU_addNew(ev, k) ==
    IF ev.pol.capacity = 0 THEN NoEviction(ev.pol)
    ELSE [pol |-> LRU_addToHead(Cache_set(ev.pol, k, 0), k), key |-> ev.key]

\* LRU_get without the promotion of the node
LRU_get_noPromote(p, k) == p

LRU_get(p, k) ==
    IF k \notin DOMAIN p.cache THEN p ELSE LRU_moveToHead(p, k)

\* LRU_set with the capacity test size > capacity
LRU_set_offByOne(p, k) ==
    IF k \in DOMAIN p.cache
    THEN NoEviction(LRU_moveToHead(p, k))
    ELSE LRU_addNew(IF p.capacity > 0 /\ Cardinality(DOMAIN p.cache) > p.capacity
                    THEN LRU_evictLRU(p) ELSE NoEviction(p), k)

\* LRU_set that makes the capacity check before it looks for the key
LRU_set_evictOnUpdate(p, k) ==
    IF k \in DOMAIN p.cache
    THEN IF Cardinality(DOMAIN p.cache) >= p.capacity /\ p.tail # k
         THEN [pol |-> LRU_moveToHead(LRU_evictLRU(p).pol, k), key |-> p.tail]
         ELSE NoEviction(LRU_moveToHead(p, k))
    ELSE LRU_addNew(IF p.capacity > 0 /\ Cardinality(DOMAIN p.cache) >= p.capacity
                    THEN LRU_evictLRU(p) ELSE NoEviction(p), k)

LRU_set(p, k) ==
    IF k \in DOMAIN p.cache
    THEN NoEviction(LRU_moveToHead(p, k))
    ELSE LRU_addNew(IF p.capacity > 0 /\ Cardinality(DOMAIN p.cache) >= p.capacity
                    THEN LRU_evictLRU(p) ELSE NoEviction(p), k)

List_delete(p, k) ==
    IF k \notin DOMAIN p.cache THEN p
    ELSE Cache_delete(List_removeNode(p, k), k)

List_clear(p) == [p EXCEPT !.cache = EmptyMap, !.head = Nil, !.tail = Nil]

----------------------------------------------------------------------------
(* FIFOPolicy: head = oldest insertion (victim), tail = newest *)

FIFO_new(capacity) ==
    [kind |-> "FIFO", capacity |-> capacity, cache |-> EmptyMap,
     head |-> Nil, tail |-> Nil, frequencyMap |-> EmptyMap, minFrequency |-> 0]

FIFO_addToTail(p, k) ==
    LET c1 == [p.cache EXCEPT ![k] = [@ EXCEPT !.prev = p.tail, !.next = Nil]]
        c2 == IF p.tail # Nil THEN [c1 EXCEPT ![p.tail].next = k] ELSE c1
    IN [p EXCEPT !.cache = c2, !.tail = k,
                 !.head = IF p.head = Nil THEN k ELSE p.head]

FIFO_evictFIFO(p) ==
    IF p.head = Nil THEN NoEviction(p)
    ELSE [pol |-> Cache_delete(List_removeNode(p, p.head), p.head), key |-> p.head]

\* the second half of set for a new key: ev is the outcome of the capacity check
FIFO_addNew(ev, k) ==
    IF ev.pol.capacity = 0 THEN NoEviction(ev.pol)
    ELSE [pol |-> FIFO_addToTail(Cache_set(ev.pol, k, 0), k), key |-> ev.key]

FIFO_get(p, k) == p

\* FIFO_set that moves an updated key to the tail
FIFO_set_reinsert(p, k) ==
    IF k \in DOMAIN p.cache
    THEN NoEviction(FIFO_addToTail(List_removeNode(p, k), k))
    ELSE FIFO_addNew(IF p.capacity > 0 /\ Cardinality(DOMAIN p.cache) >= p.capacity
                     THEN FIFO_evictFIFO(p) ELSE NoEviction(p), k)

FIFO_set(p, k) ==
    IF k \in DOMAIN p.cache
    THEN NoEviction(p)
    ELSE FIFO_addNew(IF p.capacity > 0 /\ Cardinality(DOMAIN p.cache) >= p.capacity
                     THEN FIFO_evictFIFO(p) ELSE NoEviction(p), k)

----------------------------------------------------------------------------
(* LFUPolicy: one list per frequency, head = least recently touched at     *)
(* that frequency (victim), tail = most recently touched                   *)

LFU_new(capacity) ==
    [kind |-> "LFU", capacity |-> capacity, cache |-> EmptyMap,
     head |-> Nil, tail |-> Nil, frequencyMap |-> EmptyMap, minFrequency |-> 0]

\* addToFrequencyList that puts the node in front of its list
LFU_addToFrequencyList_atHead(p, k, frequency) ==
    LET fm0 == IF frequency \in DOMAIN p.frequencyMap THEN p.frequencyMap
               ELSE MapPut(p.frequencyMap, frequency, [head |-> Nil, tail |-> Nil])
        fl == fm0[frequency]
        c1 == [p.cache EXCEPT ![k] = [@ EXCEPT !.next = fl.head, !.prev = Nil]]
        c2 == IF fl.head # Nil THEN [c1 EXCEPT ![fl.head].prev = k] ELSE c1
        fl2 == [head |-> k, tail |-> IF fl.tail = Nil THEN k ELSE fl.tail]
    IN [p EXCEPT !.cache = c2, !.frequencyMap = [fm0 EXCEPT ![frequency] = fl2]]

LFU_addToFrequencyList(p, k, frequency) ==
    LET fm0 == IF frequency \in DOMAIN p.frequencyMap THEN p.frequencyMap
               ELSE MapPut(p.frequencyMap, frequency, [head |-> Nil, tail |-> Nil])
        fl == fm0[frequency]
        c1 == [p.cache EXCEPT ![k] = [@ EXCEPT !.prev = fl.tail, !.next = Nil]]
        c2 == IF fl.tail # Nil THEN [c1 EXCEPT ![fl.tail].next = k] ELSE c1
        fl2 == [head |-> IF fl.head = Nil THEN k ELSE fl.head, tail |-> k]
    IN [p EXCEPT !.cache = c2, !.frequencyMap = [fm0 EXCEPT ![frequency] = fl2]]

LFU_removeFromFrequencyList(p, k) ==
    LET n == p.cache[k]
    IN IF n.frequency \notin DOMAIN p.frequencyMap THEN p
       ELSE LET fl == p.frequencyMap[n.frequency]
                c1 == IF n.prev # Nil THEN [p.cache EXCEPT ![n.prev].next = n.next]
                      ELSE p.cache
                h1 == IF n.prev # Nil THEN fl.head ELSE n.next
                c2 == IF n.next # Nil THEN [c1 EXCEPT ![n.next].prev = n.prev] ELSE c1
                t1 == IF n.next # Nil THEN fl.tail ELSE n.prev
                fm1 == IF h1 = Nil THEN MapDel(p.frequencyMap, n.frequency)
                       ELSE [p.frequencyMap EXCEPT ![n.frequency] =
                                                     [head |-> h1, tail |-> t1]]
            IN [p EXCEPT !.cache = c2, !.frequencyMap = fm1]

\* node.frequency = newFrequency
LFU_setFrequency(p, k, newFrequency) ==
    [p EXCEPT !.cache[k].frequency = newFrequency]

\* the update of minFrequency that ends increaseFrequency
LFU_raiseMinFrequency(p, oldFrequency) ==
    IF oldFrequency = p.minFrequency /\ oldFrequency \notin DOMAIN p.frequencyMap
    THEN [p EXCEPT !.minFrequency = oldFrequency + 1]
    ELSE p

LFU_increaseFrequency(p, k) ==
    LFU_raiseMinFrequency(
        LFU_addToFrequencyList(
            LFU_setFrequency(LFU_removeFromFrequencyList(p, k), k,
                             p.cache[k].frequency + 1),
            k, p.cache[k].frequency + 1),
        p.cache[k].frequency)

\* LFU_evictLFU that takes the tail of the minFrequency list
LFU_evictLFU_tail(p) ==
    IF p.minFrequency = 0 THEN NoEviction(p)
    ELSE IF p.minFrequency \notin DOMAIN p.frequencyMap
            \/ p.frequencyMap[p.minFrequency].head = Nil
         THEN NoEviction(p)
         ELSE LET evictedKey == p.frequencyMap[p.minFrequency].tail
              IN [pol |-> Cache_delete(LFU_removeFromFrequencyList(p, evictedKey),
                                       evictedKey),
                  key |-> evictedKey]

LFU_evictLFU(p) ==
    IF p.minFrequency = 0 THEN NoEviction(p)
    ELSE IF p.minFrequency \notin DOMAIN p.frequencyMap
            \/ p.frequencyMap[p.minFrequency].head = Nil
         THEN NoEviction(p)
         ELSE LET evictedKey == p.frequencyMap[p.minFrequency].head
              IN [pol |-> Cache_delete(LFU_removeFromFrequencyList(p, evictedKey),
                                       evictedKey),
                  key |-> evictedKey]

LFU_get(p, k) ==
    IF k \notin DOMAIN p.cache THEN p ELSE LFU_increaseFrequency(p, k)

\* the update of minFrequency that ends set for a new key
LFU_resetMinFrequency(p) ==
    IF p.minFrequency = 0 \/ p.minFrequency > 1
    THEN [p EXCEPT !.minFrequency = 1] ELSE p

\* the second half of set for a new key: ev is the outcome of the capacity check
LFU_addNew(ev, k) ==
    IF ev.pol.capacity = 0 THEN NoEviction(ev.pol)
    ELSE [pol |-> LFU_resetMinFrequency(
                      LFU_addToFrequencyList(Cache_set(ev.pol, k, 1), k, 1)),
          key |-> ev.key]

LFU_set(p, k) ==
    IF k \in DOMAIN p.cache
    THEN NoEviction(LFU_increaseFrequency(p, k))
    ELSE LFU_addNew(IF p.capacity > 0 /\ Cardinality(DOMAIN p.cache) >= p.capacity
                    THEN LFU_evictLFU(p) ELSE NoEviction(p), k)

\* the update of minFrequency that ends delete
LFU_bumpMinFrequency(p) ==
    IF p.minFrequency > 0 /\ p.minFrequency \notin DOMAIN p.frequencyMap
    THEN [p EXCEPT !.minFrequency = @ + 1]
    ELSE p

LFU_delete(p, k) ==
    IF k \notin DOMAIN p.cache THEN p
    ELSE LFU_bumpMinFrequency(Cache_delete(LFU_removeFromFrequencyList(p, k), k))

LFU_clear_keepMin(p) == [p EXCEPT !.cache = EmptyMap, !.frequencyMap = EmptyMap]

LFU_clear(p) == [p EXCEPT !.cache = EmptyMap, !.frequencyMap = EmptyMap,
                          !.minFrequency = 0]

----------------------------------------------------------------------------
(* The EvictionPolicy interface, dispatched on the class of the object *)

PolicyGet(p, k) ==
    CASE p.kind = "LRU" -> LRU_get(p, k)
      [] p.kind = "LFU" -> LFU_get(p, k)
      [] OTHER -> FIFO_get(p, k)

PolicySet(p, k) ==
    CASE p.kind = "LRU" -> LRU_set(p, k)
      [] p.kind = "LFU" -> LFU_set(p, k)
      [] OTHER -> FIFO_set(p, k)

PolicyDelete(p, k) ==
    CASE p.kind = "LFU" -> LFU_delete(p, k)
      [] OTHER -> List_delete(p, k)

PolicyEvict(p) ==
    CASE p.kind = "LRU" -> LRU_evictLRU(p)
      [] p.kind = "LFU" -> LFU_evictLFU(p)
      [] OTHER -> FIFO_evictFIFO(p)

PolicyClear(p) ==
    CASE p.kind = "LFU" -> LFU_clear(p)
      [] OTHER -> List_clear(p)

PolicySize(p) == Cardinality(DOMAIN p.cache)

createEvictionPolicy(kind, capacity) ==
    CASE kind = "LRU" -> LRU_new(capacity)
      [] kind = "LFU" -> LFU_new(capacity)
      [] kind = "FIFO" -> FIFO_new(capacity)
      [] OTHER -> LRU_new(capacity)

----------------------------------------------------------------------------
(* Values.  A value is a pair (type, v): for a number v is the number, for *)
(* a string v is its UTF-8 byte length (strings are told apart by length), *)
(* for a boolean v is 0 or 1, for null v is 0.                             *)

Num(n) == [t |-> "num", v |-> n]
Str(len) == [t |-> "str", v |-> len]
Bool(b) == [t |-> "bool", v |-> b]
NullVal == [t |-> "null", v |-> 0]

\* a string that fits the memory threshold once but not twice
BigLen == 500000
\* a string that alone is larger than maxMemoryBytes
HugeLen == 1100000

\* the values clients write with SET
SetValues == {Num(1), Str(BigLen), Str(HugeLen)}
\* every kind of value the engine stores
StorableValues == SetValues \cup {NullVal, Bool(1)}
\* the TTLs clients pass to SET and UPDATE-TTL; 0 stands for "no ttl given"
TTLs == {0, 1}
NoExpiry == 0

\* Buffer.byteLength(key, 'utf8') of the ASCII keys of the model
ByteLength(key) == Len(key)

estimateValueSize(value) ==
    CASE value.t = "null" -> 8
      [] value.t = "bool" -> 1
      [] value.t = "num" -> 8
      [] value.t = "str" -> value.v
      [] OTHER -> 16

Overhead == 64

calculateEntrySize(key, value) ==
    ByteLength(key) + estimateValueSize(value) + Overhead

----------------------------------------------------------------------------
(* StatisticsTracker *)

OperationWindow == 10000

Stats_new == [hits |-> 0, misses |-> 0, evictions |-> 0, expirations |-> 0,
              operations |-> <<>>]

recordOperation(s, t) ==
    [s EXCEPT !.operations =
        SelectSeq(Append(s.operations, t), LAMBDA time : time > t - OperationWindow)]

recordHit(s, t) == recordOperation([s EXCEPT !.hits = @ + 1], t)

recordMiss(s, t) == recordOperation([s EXCEPT !.misses = @ + 1], t)

recordEviction(s) == [s EXCEPT !.evictions = @ + 1]

recordExpiration(s) == [s EXCEPT !.expirations = @ + 1]

----------------------------------------------------------------------------
(* The primary map: entries in insertion order *)

StoreKeys(st) == {st[i].key : i \in 1..Len(st)}

StoreHas(st, k) == k \in StoreKeys(st)

StoreIndex(st, k) == CHOOSE i \in 1..Len(st) : st[i].key = k

StoreGet(st, k) == st[StoreIndex(st, k)]

\* Map.set of a key that is not in the map
StoreAdd(st, entry) == Append(st, entry)

\* Map.delete
StoreDelete(st, k) == SelectSeq(st, LAMBDA en : en.key # k)

\* IsExpired that takes the expiration instant itself as expired
IsExpired_atInstant(entry, t) == entry.expiresAt # NoExpiry /\ t >= entry.expiresAt

\* entry.expiresAt && now > entry.expiresAt
IsExpired(entry, t) == entry.expiresAt # NoExpiry /\ t > entry.expiresAt

----------------------------------------------------------------------------
(* CacheEngine.  An engine state e is the record of the fields store,      *)
(* evictionPolicy, currentMemoryBytes, stats; t is the value of Date.now() *)

MaxMemoryMB == 1

maxMemoryBytes == MaxMemoryMB * 1024 * 1024

memoryThreshold == (maxMemoryBytes * 9) \div 10

Engine_new(cfg) ==
    [store |-> <<>>,
     evictionPolicy |-> createEvictionPolicy(cfg.evictionPolicy, cfg.maxKeys),
     currentMemoryBytes |-> 0,
     stats |-> Stats_new]

\* delete that leaves currentMemoryBytes alone
delete_noAccount(e, k) ==
    IF ~StoreHas(e.store, k) THEN [eng |-> e, ret |-> FALSE]
    ELSE [eng |-> [e EXCEPT
                     !.store = StoreDelete(e.store, k),
                     !.evictionPolicy = PolicyDelete(e.evictionPolicy, k)],
          ret |-> TRUE]

delete_keepPolicy(e, k) ==
    IF ~StoreHas(e.store, k) THEN [eng |-> e, ret |-> FALSE]
    ELSE [eng |-> [e EXCEPT
                     !.currentMemoryBytes = @ - StoreGet(e.store, k).size,
                     !.store = StoreDelete(e.store, k)],
          ret |-> TRUE]

delete(e, k) ==
    IF ~StoreHas(e.store, k) THEN [eng |-> e, ret |-> FALSE]
    ELSE [eng |-> [e EXCEPT
                     !.currentMemoryBytes = @ - StoreGet(e.store, k).size,
                     !.store = StoreDelete(e.store, k),
                     !.evictionPolicy = PolicyDelete(e.evictionPolicy, k)],
          ret |-> TRUE]

\* the calls this.stats.recordX() of the engine
statsRecordHit(e, t) == [e EXCEPT !.stats = recordHit(e.stats, t)]

statsRecordMiss(e, t) == [e EXCEPT !.stats = recordMiss(e.stats, t)]

statsRecordEviction(e) == [e EXCEPT !.stats = recordEviction(e.stats)]

statsRecordExpiration(e) == [e EXCEPT !.stats = recordExpiration(e.stats)]

\* the removal of the entry of key k from the map, with its accounting
\* (currentMemoryBytes -= entry.size; store.delete(key))
removeEntry(e, k) ==
    [e EXCEPT !.currentMemoryBytes = @ - StoreGet(e.store, k).size,
              !.store = StoreDelete(e.store, k)]

\* evictOne after the call of evict() on the policy, whose outcome is ev
evictOne_entry(e, ev) ==
    IF ev.key = Nil THEN [eng |-> e, key |-> Nil]
    ELSE IF StoreHas(e.store, ev.key)
         THEN [eng |-> statsRecordEviction(removeEntry(e, ev.key)), key |-> ev.key]
         ELSE [eng |-> e, key |-> Nil]

evictOne(e) ==
    evictOne_entry([e EXCEPT !.evictionPolicy = PolicyEvict(e.evictionPolicy).pol],
                   PolicyEvict(e.evictionPolicy))

RECURSIVE enforceMemoryLimit(_, _)
RECURSIVE enforceMemoryLimit_next(_, _)
\* the body of the while loop after evictOne, whose outcome is r
enforceMemoryLimit_next(r, requiredSpace) ==
    IF r.key = Nil THEN r.eng
    ELSE enforceMemoryLimit(r.eng, requiredSpace)

enforceMemoryLimit(e, requiredSpace) ==
    IF e.currentMemoryBytes + requiredSpace > memoryThreshold /\ Len(e.store) > 0
    THEN enforceMemoryLimit_next(evictOne(e), requiredSpace)
    ELSE e

set_evicted_uncounted(e, ps) ==
    IF ps.key # Nil /\ StoreHas(e.store, ps.key)
    THEN removeEntry(e, ps.key)
    ELSE e

\* set for a new key after the insertion in the map and in the policy, whose
\* outcome is ps
set_evicted(e, ps) ==
    IF ps.key # Nil /\ StoreHas(e.store, ps.key)
    THEN statsRecordEviction(removeEntry(e, ps.key))
    ELSE e

set_entry_keepTTL(e, entry) ==
    IF StoreHas(e.store, entry.key)
    THEN [e EXCEPT
            !.currentMemoryBytes = @ - StoreGet(e.store, entry.key).size + entry.size,
            !.store[StoreIndex(e.store, entry.key)] =
                [entry EXCEPT !.expiresAt =
                    IF entry.expiresAt = NoExpiry
                    THEN StoreGet(e.store, entry.key).expiresAt
                    ELSE entry.expiresAt],
            !.evictionPolicy = PolicySet(e.evictionPolicy, entry.key).pol]
    ELSE set_evicted([e EXCEPT
                        !.store = StoreAdd(e.store, entry),
                        !.currentMemoryBytes = @ + entry.size,
                        !.evictionPolicy = PolicySet(e.evictionPolicy, entry.key).pol],
                     PolicySet(e.evictionPolicy, entry.key))

\* set after the memory check: the update of an entry or the insertion of one
set_entry(e, entry) ==
    IF StoreHas(e.store, entry.key)
    THEN [e EXCEPT
            !.currentMemoryBytes = @ - StoreGet(e.store, entry.key).size + entry.size,
            !.store[StoreIndex(e.store, entry.key)] = entry,
            !.evictionPolicy = PolicySet(e.evictionPolicy, entry.key).pol]
    ELSE set_evicted([e EXCEPT
                        !.store = StoreAdd(e.store, entry),
                        !.currentMemoryBytes = @ + entry.size,
                        !.evictionPolicy = PolicySet(e.evictionPolicy, entry.key).pol],
                     PolicySet(e.evictionPolicy, entry.key))

set(e, k, value, ttl, t) ==
    set_entry(IF e.currentMemoryBytes + calculateEntrySize(k, value) > memoryThreshold
              THEN enforceMemoryLimit(e, calculateEntrySize(k, value)) ELSE e,
              [key |-> k, value |-> value,
               expiresAt |-> IF ttl # 0 THEN t + ttl ELSE NoExpiry,
               size |-> calculateEntrySize(k, value)])

\* get that leaves the expired entry in place
get_keepExpired(e, k, t) ==
    IF ~StoreHas(e.store, k)
    THEN [eng |-> statsRecordMiss(e, t), ret |-> NullVal]
    ELSE IF IsExpired(StoreGet(e.store, k), t)
         THEN [eng |-> statsRecordMiss(statsRecordExpiration(e), t),
               ret |-> NullVal]
         ELSE [eng |-> statsRecordHit(
                           [e EXCEPT !.evictionPolicy = PolicyGet(e.evictionPolicy, k)],
                           t),
               ret |-> StoreGet(e.store, k).value]

get(e, k, t) ==
    IF ~StoreHas(e.store, k)
    THEN [eng |-> statsRecordMiss(e, t), ret |-> NullVal]
    ELSE IF IsExpired(StoreGet(e.store, k), t)
         THEN [eng |-> statsRecordMiss(statsRecordExpiration(delete(e, k).eng), t),
               ret |-> NullVal]
         ELSE [eng |-> statsRecordHit(
                           [e EXCEPT !.evictionPolicy = PolicyGet(e.evictionPolicy, k)],
                           t),
               ret |-> StoreGet(e.store, k).value]

exists_ignoreExpiry(e, k, t) == [eng |-> e, ret |-> StoreHas(e.store, k)]

exists_viaGet(e, k, t) ==
    [eng |-> get(e, k, t).eng, ret |-> get(e, k, t).ret # NullVal]

exists(e, k, t) ==
    IF ~StoreHas(e.store, k) THEN [eng |-> e, ret |-> FALSE]
    ELSE IF IsExpired(StoreGet(e.store, k), t)
         THEN [eng |-> statsRecordExpiration(delete(e, k).eng), ret |-> FALSE]
         ELSE [eng |-> e, ret |-> TRUE]

increment_value_fromZero(g, k, amount, t) ==
    IF g.ret = NullVal
    THEN [eng |-> set(g.eng, k, Num(amount), 0, t), ret |-> Num(amount),
          err |-> FALSE]
    ELSE IF g.ret.t # "num"
         THEN [eng |-> g.eng, ret |-> NullVal, err |-> TRUE]
         ELSE [eng |-> set(g.eng, k, Num(amount), 0, t),
               ret |-> Num(amount), err |-> FALSE]

increment_value_noStore(g, k, amount, t) ==
    IF g.ret = NullVal
    THEN [eng |-> set(g.eng, k, Num(amount), 0, t), ret |-> Num(amount),
          err |-> FALSE]
    ELSE IF g.ret.t # "num"
         THEN [eng |-> g.eng, ret |-> NullVal, err |-> TRUE]
         ELSE [eng |-> g.eng, ret |-> Num(g.ret.v + amount), err |-> FALSE]

\* increment after its call of get, whose outcome is g
increment_value(g, k, amount, t) ==
    IF g.ret = NullVal
    THEN [eng |-> set(g.eng, k, Num(amount), 0, t), ret |-> Num(amount),
          err |-> FALSE]
    ELSE IF g.ret.t # "num"
         THEN [eng |-> g.eng, ret |-> NullVal, err |-> TRUE]
         ELSE [eng |-> set(g.eng, k, Num(g.ret.v + amount), 0, t),
               ret |-> Num(g.ret.v + amount), err |-> FALSE]

\* the result err = TRUE stands for the thrown Error
increment(e, k, amount, t) == increment_value(get(e, k, t), k, amount, t)

updateTTL_touch(e, k, ttl, t) ==
    IF ~StoreHas(e.store, k) THEN [eng |-> e, ret |-> FALSE]
    ELSE [eng |-> [e EXCEPT !.store[StoreIndex(e.store, k)].expiresAt = t + ttl,
                            !.evictionPolicy = PolicyGet(e.evictionPolicy, k)],
          ret |-> TRUE]

updateTTL(e, k, ttl, t) ==
    IF ~StoreHas(e.store, k) THEN [eng |-> e, ret |-> FALSE]
    ELSE [eng |-> [e EXCEPT !.store[StoreIndex(e.store, k)].expiresAt = t + ttl],
          ret |-> TRUE]

clear(e) ==
    [e EXCEPT !.store = <<>>,
              !.evictionPolicy = PolicyClear(e.evictionPolicy),
              !.currentMemoryBytes = 0]

resetStats_keepEvictions(e) ==
    [e EXCEPT !.stats = [Stats_new EXCEPT !.evictions = e.stats.evictions]]

resetStats(e) == [e EXCEPT !.stats = Stats_new]

\* the for-of loop of cleanup over the entries still to visit
RECURSIVE cleanupLoop(_, _, _, _)
cleanupLoop(e, todo, t, cleaned) ==
    IF todo = <<>> THEN [eng |-> e, ret |-> cleaned]
    ELSE IF StoreHas(e.store, Head(todo))
            /\ IsExpired(StoreGet(e.store, Head(todo)), t)
         THEN cleanupLoop(statsRecordExpiration(delete(e, Head(todo)).eng),
                          Tail(todo), t, cleaned + 1)
         ELSE cleanupLoop(e, Tail(todo), t, cleaned)

cleanup_headOnly(e, t) ==
    cleanupLoop(e, IF e.store = <<>> THEN <<>> ELSE <<e.store[1].key>>, t, 0)

cleanup(e, t) ==
    cleanupLoop(e, [i \in 1..Len(e.store) |-> e.store[i].key], t, 0)

\* result[key] = value, the assignments of the loop taken last to first: an
\* assignment made later in the loop wins
getMultiple_result(k, value, rest) ==
    [eng |-> rest.eng,
     ret |-> IF value # NullVal /\ k \notin DOMAIN rest.ret
             THEN MapPut(rest.ret, k, value)
             ELSE rest.ret]

RECURSIVE getMultiple(_, _, _)
RECURSIVE getMultiple_rest(_, _, _)
\* the loop of getMultiple after the get of the first key, whose outcome is g
getMultiple_rest(g, ks, t) ==
    getMultiple_result(Head(ks), g.ret, getMultiple(g.eng, Tail(ks), t))

getMultiple(e, ks, t) ==
    IF ks = <<>> THEN [eng |-> e, ret |-> EmptyMap]
    ELSE getMultiple_rest(get(e, Head(ks), t), ks, t)

RECURSIVE setMultiple_reversed(_, _, _)
setMultiple_reversed(e, entries, t) ==
    IF entries = <<>> THEN e
    ELSE set(setMultiple_reversed(e, Tail(entries), t),
             Head(entries).key, Head(entries).value, Head(entries).ttl, t)

RECURSIVE setMultiple(_, _, _)
setMultiple(e, entries, t) ==
    IF entries = <<>> THEN e
    ELSE setMultiple(set(e, Head(entries).key, Head(entries).value,
                         Head(entries).ttl, t),
                     Tail(entries), t)

deleteMultiple_result_all(k, deleted, rest) ==
    [eng |-> rest.eng, ret |-> <<k>> \o rest.ret]

\* deletedKeys.push(key) for the first key, before the keys of the rest
deleteMultiple_result(k, deleted, rest) ==
    [eng |-> rest.eng,
     ret |-> IF deleted THEN <<k>> \o rest.ret ELSE rest.ret]

RECURSIVE deleteMultiple(_, _)
RECURSIVE deleteMultiple_rest(_, _)
\* the loop of deleteMultiple after the delete of the first key, whose outcome is d
deleteMultiple_rest(d, ks) ==
    deleteMultiple_result(Head(ks), d.ret, deleteMultiple(d.eng, Tail(ks)))

deleteMultiple(e, ks) ==
    IF ks = <<>> THEN [eng |-> e, ret |-> <<>>]
    ELSE deleteMultiple_rest(delete(e, Head(ks)), ks)

----------------------------------------------------------------------------
(* State *)

VARIABLES
    cacheConfig,         \* CacheEngine.cacheConfig: maxKeys, evictionPolicy
    store,               \* CacheEngine.store
    evictionPolicy,      \* CacheEngine.evictionPolicy (the policy object)
    currentMemoryBytes,  \* CacheEngine.currentMemoryBytes
    stats,               \* CacheEngine.stats (StatisticsTracker)
    now,                 \* the clock read by Date.now()
    lastOp,              \* the last call made on a bare policy, its key and its result
    ref,                 \* reference bookkeeping of the accesses to a bare policy
    requests,            \* the POST /increment request of each client and its response
    entered,             \* the clients in the order their requests entered the engine
    initial,             \* the number the counter held before the requests
    cleanupInterval,     \* cleanupInterval of the cleanup worker: its timer or null
    timers,              \* the interval timers of the process that are active
    timersCreated,       \* the number of calls of setInterval so far
    server,              \* the HTTP server: listening, open connections, close callbacks
    signals,             \* the signals sent to the process and not yet delivered
    exitCode,            \* the code passed to process.exit
    scenario             \* the SETs of the memory scenario: value length, number done

\* the variables of the cleanup worker
workerVars == <<cleanupInterval, timers, timersCreated>>

\* the variables of the process around the engine
processVars == <<server, signals, exitCode>>

vars == <<cacheConfig, store, evictionPolicy, currentMemoryBytes, stats, now,
          lastOp, ref, requests, entered, initial, workerVars, processVars, scenario>>

\* cleanupInterval = null
NoTimer == 0

\* the cleanup worker before its first start
WorkerNotStarted ==
    /\ cleanupInterval = NoTimer
    /\ timers = {}
    /\ timersCreated = 0

\* no SET of the memory scenario was made
NoScenario == [length |-> 0, written |-> 0]

\* the value of exitCode while process.exit has not been called
NotExited == -1

\* the process after app.listen, with no signal sent
ProcessListening ==
    /\ server = [listening |-> TRUE, connections |-> 0, closeCallbacks |-> <<>>]
    /\ signals = [SIGTERM |-> 0, SIGINT |-> 0, sent |-> 0]
    /\ exitCode = NotExited

\* the cleanup worker of a new process
NewWorker == [cleanupInterval |-> NoTimer, timers |-> {}, timersCreated |-> 0]

\* the engine state as one record, and the assignment of a record to the state
Eng == [store |-> store, evictionPolicy |-> evictionPolicy,
        currentMemoryBytes |-> currentMemoryBytes, stats |-> stats]

\* the clients of the API and their requests, none sent yet
Clients == {"c1", "c2", "c3"}

NoRequests == [c \in Clients |-> [pc |-> "idle", amount |-> 0, value |-> NullVal]]

StatEvents(s) == s.hits + s.misses + s.evictions + s.expirations

WithinBounds(e) ==
    /\ StatEvents(e.stats) <= MaxStatEvents
    /\ \A k \in DOMAIN e.evictionPolicy.cache :
          e.evictionPolicy.cache[k].frequency <= MaxFrequency
    /\ \A i \in 1..Len(e.store) :
          e.store[i].value.t = "num" => e.store[i].value.v <= MaxNumber

Commit(e) ==
    /\ WithinBounds(e)
    /\ store' = e.store
    /\ evictionPolicy' = e.evictionPolicy
    /\ currentMemoryBytes' = e.currentMemoryBytes
    /\ stats' = e.stats
    /\ UNCHANGED <<cacheConfig, now, lastOp, ref, requests, entered, initial, workerVars, processVars, scenario>>

Policies == {"LRU", "LFU", "FIFO"}

Init ==
    /\ cacheConfig \in [maxKeys : 0..Cardinality(EngineKeys),
                        evictionPolicy : Policies]
    /\ store = Engine_new(cacheConfig).store
    /\ evictionPolicy = Engine_new(cacheConfig).evictionPolicy
    /\ currentMemoryBytes = Engine_new(cacheConfig).currentMemoryBytes
    /\ stats = Engine_new(cacheConfig).stats
    /\ now = 1
    /\ lastOp = [op |-> "new", key |-> Nil, ret |-> Nil]
    /\ ref = [order |-> <<>>, uses |-> EmptyMap]
    /\ requests = NoRequests
    /\ entered = <<>>
    /\ initial = 0
    /\ WorkerNotStarted
    /\ ProcessListening
    /\ scenario = NoScenario

----------------------------------------------------------------------------
(* The operations of the engine *)

Tick ==
    /\ now < MaxTime
    /\ now' = now + 1
    /\ UNCHANGED <<cacheConfig, store, evictionPolicy, currentMemoryBytes, stats,
                   lastOp, ref, requests, entered, initial, workerVars, processVars, scenario>>

Get(k) ==
    /\ Commit(get(Eng, k, now).eng)

\* a TTL is given only when the entry can expire before MaxTime
Set(k, value, ttl) ==
    /\ ttl # 0 => now + ttl < MaxTime
    /\ Commit(set(Eng, k, value, ttl, now))

Delete(k) ==
    /\ Commit(delete(Eng, k).eng)

Exists(k) ==
    /\ Commit(exists(Eng, k, now).eng)

Increment(k, amount) ==
    /\ Commit(increment(Eng, k, amount, now).eng)

UpdateTTL(k, ttl) ==
    /\ now + ttl < MaxTime
    /\ Commit(updateTTL(Eng, k, ttl, now).eng)

Clear ==
    /\ Commit(clear(Eng))

ResetStats ==
    /\ Commit(resetStats(Eng))

Cleanup ==
    /\ Commit(cleanup(Eng, now).eng)

\* the batches of the model: sequences of 1..MaxBatch elements
Batches(S) == UNION {[1..n -> S] : n \in 1..MaxBatch}

BatchEntries == [key : EngineKeys, value : {Str(BigLen)}, ttl : {0}]

GetMultiple(ks) ==
    /\ Commit(getMultiple(Eng, ks, now).eng)

SetMultiple(entries) ==
    /\ Commit(setMultiple(Eng, entries, now))

DeleteMultiple(ks) ==
    /\ Commit(deleteMultiple(Eng, ks).eng)

Next ==
    \/ Tick
    \/ \E k \in EngineKeys : Get(k)
    \/ \E k \in EngineKeys, value \in SetValues, ttl \in TTLs : Set(k, value, ttl)
    \/ \E k \in EngineKeys : Delete(k)
    \/ \E k \in EngineKeys : Exists(k)
    \/ \E k \in EngineKeys : Increment(k, 1)
    \/ \E k \in EngineKeys, ttl \in TTLs \ {0} : UpdateTTL(k, ttl)
    \/ Clear
    \/ ResetStats
    \/ Cleanup
    \/ \E ks \in Batches(EngineKeys) : GetMultiple(ks)
    \/ \E entries \in Batches(BatchEntries) : SetMultiple(entries)
    \/ \E ks \in Batches(EngineKeys) : DeleteMultiple(ks)

Spec == Init /\ [][Next]_vars

----------------------------------------------------------------------------
(* Calls on a bare policy object (as the policy test suites make them).    *)
(* ref is the reference bookkeeping the ordering claims are stated in:     *)
(* ref.order lists the resident keys, for LRU and LFU from the least to    *)
(* the most recently touched (inserted, found by get, updated by set), for *)
(* FIFO from the earliest to the latest inserted; ref.uses counts, for     *)
(* LFU, 1 + the get hits and updating sets of a key since its insertion.   *)

RefRemove(r, removed) ==
    [order |-> SelectSeq(r.order, LAMBDA x : x \notin removed),
     uses |-> [x \in (DOMAIN r.uses) \ removed |-> r.uses[x]]]

RefInsert(r, k) == [order |-> Append(r.order, k), uses |-> MapPut(r.uses, k, 1)]

RefTouch(r, k, kind) ==
    CASE kind = "LRU" ->
           [r EXCEPT !.order = Append(SelectSeq(r.order, LAMBDA x : x # k), k)]
      [] kind = "LFU" ->
           [order |-> Append(SelectSeq(r.order, LAMBDA x : x # k), k),
            uses |-> [r.uses EXCEPT ![k] = @ + 1]]
      [] OTHER -> r

\* the bookkeeping after a call on key k that took the policy from p to p2
RefAfter(r, p, p2, k, touches) ==
    LET r1 == RefRemove(r, (DOMAIN p.cache) \ (DOMAIN p2.cache))
    IN IF touches /\ k \in DOMAIN p.cache /\ k \in DOMAIN p2.cache
       THEN RefTouch(r1, k, p.kind)
       ELSE IF k \in (DOMAIN p2.cache) \ (DOMAIN p.cache)
            THEN RefInsert(r1, k)
            ELSE r1

PolicyCommit(p2, k, touches, op, ret) ==
    /\ \A x \in DOMAIN p2.cache : p2.cache[x].frequency <= MaxPolicyFrequency
    /\ evictionPolicy' = p2
    /\ ref' = RefAfter(ref, evictionPolicy, p2, k, touches)
    /\ lastOp' = [op |-> op, key |-> k, ret |-> ret]
    /\ UNCHANGED <<cacheConfig, store, currentMemoryBytes, stats, now,
                   requests, entered, initial, workerVars, processVars, scenario>>

CallSet(k) ==
    /\ PolicyCommit(PolicySet(evictionPolicy, k).pol, k, TRUE, "set",
                    PolicySet(evictionPolicy, k).key)

CallGet(k) ==
    /\ PolicyCommit(PolicyGet(evictionPolicy, k), k, TRUE, "get",
                    IF k \in DOMAIN evictionPolicy.cache THEN k ELSE Nil)

CallDelete(k) ==
    /\ PolicyCommit(PolicyDelete(evictionPolicy, k), k, FALSE, "delete",
                    IF k \in DOMAIN evictionPolicy.cache THEN k ELSE Nil)

CallEvict ==
    /\ PolicyCommit(PolicyEvict(evictionPolicy).pol, Nil, FALSE, "evict",
                    PolicyEvict(evictionPolicy).key)

CallClear ==
    /\ PolicyCommit(PolicyClear(evictionPolicy), Nil, FALSE, "clear", Nil)

PolicyNext ==
    \/ \E k \in PolicyKeys : CallSet(k)
    \/ \E k \in PolicyKeys : CallGet(k)
    \/ \E k \in PolicyKeys : CallDelete(k)
    \/ CallEvict
    \/ CallClear

\* a bare policy of any of the three classes and any capacity
PolicyInit ==
    /\ cacheConfig \in [maxKeys : 0..Cardinality(PolicyKeys),
                        evictionPolicy : Policies]
    /\ store = <<>>
    /\ evictionPolicy =
          createEvictionPolicy(cacheConfig.evictionPolicy, cacheConfig.maxKeys)
    /\ currentMemoryBytes = 0
    /\ stats = Stats_new
    /\ now = 1
    /\ lastOp = [op |-> "new", key |-> Nil, ret |-> Nil]
    /\ ref = [order |-> <<>>, uses |-> EmptyMap]
    /\ requests = NoRequests
    /\ entered = <<>>
    /\ initial = 0
    /\ WorkerNotStarted
    /\ ProcessListening
    /\ scenario = NoScenario

PolicySpec == PolicyInit /\ [][PolicyNext]_vars

----------------------------------------------------------------------------
(* Claims about the replacement policies, checked under PolicySpec *)

MinOf(S) == CHOOSE m \in S : \A x \in S : m <= x

PositionIn(seq, k) == CHOOSE i \in 1..Len(seq) : seq[i] = k

\* the evictions the policy can perform in the current state: evict(), and
\* set of a key that is not resident
PossibleEvictions ==
    {PolicyEvict(evictionPolicy).key}
      \cup {PolicySet(evictionPolicy, k).key :
               k \in PolicyKeys \ DOMAIN evictionPolicy.cache}

\* C6: LRU - the key removed by the next eviction (evict() or an overflowing
\* set of a new key) is the resident key whose most recent access is the
\* earliest; with no resident key evict() returns nothing.
C6_LRUVictimIsLeastRecent ==
    evictionPolicy.kind = "LRU" =>
        /\ PolicyEvict(evictionPolicy).key =
              (IF ref.order = <<>> THEN Nil ELSE Head(ref.order))
        /\ \A k \in PolicyKeys \ DOMAIN evictionPolicy.cache :
              (evictionPolicy.capacity > 0
                 /\ PolicySize(evictionPolicy) >= evictionPolicy.capacity)
              => PolicySet(evictionPolicy, k).key = Head(ref.order)

\* evict() has just removed b although a was inserted or touched after c
C6_Witness ==
    /\ evictionPolicy.kind = "LRU"
    /\ lastOp = [op |-> "evict", key |-> Nil, ret |-> "b"]
    /\ ref.order = <<"c", "a">>
    /\ evictionPolicy.head = "a"
    /\ evictionPolicy.tail = "c"

\* k has the least number of uses among the resident keys and, among the keys
\* with that number, is the one that reached it the earliest
IsLeastFrequent(k) ==
    /\ k \in DOMAIN ref.uses
    /\ \A x \in DOMAIN ref.uses :
          /\ ref.uses[k] <= ref.uses[x]
          /\ ref.uses[x] = ref.uses[k]
                => PositionIn(ref.order, k) <= PositionIn(ref.order, x)

\* C7: LFU - whenever an eviction returns a key, that key has the minimum
\* frequency over the resident keys and, within that frequency, is the one
\* that reached it the earliest.
C7_LFUVictimIsLeastFrequent ==
    evictionPolicy.kind = "LFU" =>
        \A victim \in PossibleEvictions : victim # Nil => IsLeastFrequent(victim)

\* capacity 3, set a, b, c, get a twice, get b once: set d has evicted c
C7_Witness ==
    /\ evictionPolicy.kind = "LFU"
    /\ evictionPolicy.capacity = 3
    /\ lastOp = [op |-> "set", key |-> "d", ret |-> "c"]
    /\ ref.order = <<"a", "b", "d">>
    /\ ref.uses["a"] = 3 /\ ref.uses["b"] = 2 /\ ref.uses["d"] = 1

\* C8: FIFO - the key removed by an eviction is the resident key inserted
\* the earliest, whatever get calls and updating set calls happened since;
\* a key deleted and inserted again is the newest.
C8_FIFOVictimIsOldest ==
    evictionPolicy.kind = "FIFO" =>
        /\ PolicyEvict(evictionPolicy).key =
              (IF ref.order = <<>> THEN Nil ELSE Head(ref.order))
        /\ \A k \in PolicyKeys \ DOMAIN evictionPolicy.cache :
              (evictionPolicy.capacity > 0
                 /\ PolicySize(evictionPolicy) >= evictionPolicy.capacity)
              => PolicySet(evictionPolicy, k).key = Head(ref.order)
        /\ ref.order # <<>> => evictionPolicy.tail = ref.order[Len(ref.order)]

\* a get of the oldest key a has just left it the next victim
C8_Witness ==
    /\ evictionPolicy.kind = "FIFO"
    /\ lastOp = [op |-> "get", key |-> "a", ret |-> "a"]
    /\ ref.order = <<"a", "b">>
    /\ PolicyEvict(evictionPolicy).key = "a"

\* the frequencies that have a non-empty list
NonEmptyLevels ==
    {f \in DOMAIN evictionPolicy.frequencyMap :
        evictionPolicy.frequencyMap[f].head # Nil}

\* C9: LFU - minFrequency is the smallest frequency that has a non-empty
\* list, and 0 when the policy holds no key.
C9_MinFrequencyIsSmallestLevel ==
    evictionPolicy.kind = "LFU" =>
        /\ evictionPolicy.minFrequency =
              (IF NonEmptyLevels = {} THEN 0 ELSE MinOf(NonEmptyLevels))
        /\ DOMAIN evictionPolicy.cache = {} => evictionPolicy.minFrequency = 0

----------------------------------------------------------------------------
(* Claims about the engine, checked under Spec *)

RECURSIVE SumSizes(_)
SumSizes(st) == IF st = <<>> THEN 0 ELSE Head(st).size + SumSizes(Tail(st))

\* the entries of st whose keys are in S
EntriesOf(st, S) == SelectSeq(st, LAMBDA en : en.key \in S)

\* C1: the keys of the primary map are the keys held by the replacement
\* policy, so |primary map| = policy.size().
C1_StoreAndPolicyShareKeys ==
    /\ StoreKeys(store) = DOMAIN evictionPolicy.cache
    /\ Len(store) = PolicySize(evictionPolicy)

\* C2: currentMemoryBytes is the sum of the sizes of the entries of the
\* primary map; it is 0 when the map is empty and never negative.
C2_MemoryIsSumOfSizes ==
    /\ currentMemoryBytes = SumSizes(store)
    /\ currentMemoryBytes >= 0
    /\ store = <<>> => currentMemoryBytes = 0

\* an eviction has happened and a small entry and a big one with a TTL are
\* resident
C2_Witness ==
    /\ stats.evictions = 1
    /\ Len(store) = 2
    /\ store[1].value = Num(1)
    /\ store[2].value = Str(BigLen)
    /\ store[2].expiresAt # NoExpiry
    /\ currentMemoryBytes = BigLen + 2 * 65 + 8

\* C3: currentMemoryBytes <= maxMemoryBytes in every state.
C3_MemoryWithinMax == currentMemoryBytes <= maxMemoryBytes

\* C4 (stated for maxKeys >= 1, where the policy holds the keys of the map):
\* when SET finds currentMemoryBytes + entrySize > memoryThreshold, the
\* eviction loop ends with currentMemoryBytes + entrySize <= memoryThreshold
\* or with an empty primary map, every eviction having removed one entry,
\* subtracted its size and counted one eviction.
C4_EvictionLoopRestoresThreshold ==
    cacheConfig.maxKeys >= 1 =>
        \A k \in EngineKeys, value \in SetValues :
            LET entrySize == calculateEntrySize(k, value)
                e1 == enforceMemoryLimit(Eng, entrySize)
                removed == StoreKeys(store) \ StoreKeys(e1.store)
            IN currentMemoryBytes + entrySize > memoryThreshold =>
                  /\ \/ e1.currentMemoryBytes + entrySize <= memoryThreshold
                     \/ e1.store = <<>>
                  /\ e1.stats.evictions = stats.evictions + Cardinality(removed)
                  /\ e1.currentMemoryBytes =
                        currentMemoryBytes - SumSizes(EntriesOf(store, removed))

\* the engine state in which SET reaches its insertion step
BeforeInsert(k, value) ==
    IF currentMemoryBytes + calculateEntrySize(k, value) > memoryThreshold
    THEN enforceMemoryLimit(Eng, calculateEntrySize(k, value))
    ELSE Eng

C10_SetThenGetReturnsValue ==
    cacheConfig.maxKeys >= 1 =>
        \A k \in EngineKeys, value \in StorableValues, ttl \in TTLs,
           t \in now..(now + 2) :
            LET e1 == set(Eng, k, value, ttl, now)
                g == get(e1, k, t)
            IN (ttl = 0 \/ t <= now + ttl) =>
                  /\ g.ret = value
                  /\ g.eng.stats.hits = e1.stats.hits + 1
                  /\ g.eng.stats.misses = e1.stats.misses

\* maxKeys = 1: a GET has found b, set with a TTL; a SET of a then evicts b
\* and the GET of a at its expiration instant returns the value
C10_Witness ==
    /\ cacheConfig.maxKeys = 1
    /\ stats.hits = 1
    /\ StoreKeys(store) = {"b"}
    /\ store[1].value = Str(BigLen)
    /\ store[1].expiresAt # NoExpiry
    /\ LET e1 == set(Eng, "a", Str(BigLen), 1, now)
           g == get(e1, "a", now + 1)
       IN /\ e1.stats.evictions = stats.evictions + 1
          /\ StoreKeys(e1.store) = {"a"}
          /\ g.ret = Str(BigLen)
          /\ g.eng.stats.hits = 2

----------------------------------------------------------------------------
(* Expiration *)

\* the entry of k is in the map of e and its expiration instant has passed at t
ExpiredAt(e, k, t) == StoreHas(e.store, k) /\ IsExpired(StoreGet(e.store, k), t)

\* the instants at which the next call may be made
Later(t) == t..(t + 2)

\* the three calls that remove expired entries: GET, EXISTS and the sweep
Removers(e, k, t) == {get(e, k, t).eng, exists(e, k, t).eng, cleanup(e, t).eng}

\* from e1 to e2 the expirations counter grew by the number of keys removed
CountsRemoved(e1, e2) ==
    /\ StoreKeys(e2.store) \subseteq StoreKeys(e1.store)
    /\ e2.stats.expirations - e1.stats.expirations
          = Cardinality(StoreKeys(e1.store) \ StoreKeys(e2.store))

\* C11: a GET of a key whose entry has expired returns a miss, removes the
\* entry from the map and the policy, adds 1 to expirations and to misses and
\* leaves hits; whichever of GET, EXISTS and the sweep removes the entry
\* counts it once, and no later GET, EXISTS or sweep counts it again.
C11_ExpiredGetCountsOnce ==
    \A k \in EngineKeys, t \in Later(now) :
        ExpiredAt(Eng, k, t) =>
            /\ LET g == get(Eng, k, t)
               IN /\ g.ret = NullVal
                  /\ ~StoreHas(g.eng.store, k)
                  /\ k \notin DOMAIN g.eng.evictionPolicy.cache
                  /\ g.eng.stats.expirations = stats.expirations + 1
                  /\ g.eng.stats.misses = stats.misses + 1
                  /\ g.eng.stats.hits = stats.hits
            /\ \A e1 \in Removers(Eng, k, t) :
                  /\ CountsRemoved(Eng, e1)
                  /\ ~StoreHas(e1.store, k)
                  /\ \A t2 \in Later(t) : \A e2 \in Removers(e1, k, t2) :
                        CountsRemoved(e1, e2)

\* the entry set at 1 with a TTL of 1 has been found expired by the GET at 3
C11_Witness ==
    /\ now = 3
    /\ store = <<>>
    /\ evictionPolicy.cache = EmptyMap
    /\ stats = [Stats_new EXCEPT !.expirations = 1, !.misses = 1,
                                 !.operations = <<3>>]

----------------------------------------------------------------------------
(* The read-only operations of the engine *)

\* Math.round(n / d) for n >= 0 and d > 0
RoundDiv(n, d) == (2 * n + d) \div (2 * d)

\* StatisticsTracker.getStats; hitRate is given in hundredths of a percent
\* (the code returns that number divided by 100)
Stats_getStats(s, totalKeys, memoryUsage) ==
    [totalKeys |-> totalKeys,
     hits |-> s.hits,
     misses |-> s.misses,
     hitRate |-> IF s.hits + s.misses > 0
                 THEN RoundDiv(s.hits * 10000, s.hits + s.misses) ELSE 0,
     memoryUsage |-> memoryUsage,
     evictions |-> s.evictions,
     expirations |-> s.expirations,
     opsPerSecond |-> RoundDiv(Len(s.operations) * 1000, OperationWindow)]

getStats(e) == Stats_getStats(e.stats, Len(e.store), e.currentMemoryBytes)

\* Array.from(this.store.keys())
keys(e) == [i \in 1..Len(e.store) |-> e.store[i].key]

\* the keys a sequence lists
Range(seq) == {seq[i] : i \in 1..Len(seq)}

\* the keys of e that are in the map and not expired at t
LiveKeys(e, t) == {k \in StoreKeys(e.store) : ~ExpiredAt(e, k, t)}

\* C12 (stated for maxKeys >= 1): no read shows an entry whose expiration
\* instant has passed: GET, EXISTS, UPDATE-TTL and batch GET answer as for
\* an absent key and remove the entry, KEYS does not list it and the
\* totalKeys of getStats does not count it.
C12_NoExpiredEntryExposed ==
    \A k \in EngineKeys, t \in Later(now) :
        (cacheConfig.maxKeys >= 1 /\ ExpiredAt(Eng, k, t)) =>
            /\ get(Eng, k, t).ret = NullVal
            /\ ~StoreHas(get(Eng, k, t).eng.store, k)
            /\ exists(Eng, k, t).ret = FALSE
            /\ ~StoreHas(exists(Eng, k, t).eng.store, k)
            /\ k \notin DOMAIN getMultiple(Eng, <<k>>, t).ret
            /\ ~StoreHas(getMultiple(Eng, <<k>>, t).eng.store, k)
            /\ k \notin Range(keys(Eng))
            /\ getStats(Eng).totalKeys = Cardinality(LiveKeys(Eng, t))
            /\ updateTTL(Eng, k, 1, t).ret = FALSE
            /\ ~StoreHas(updateTTL(Eng, k, 1, t).eng.store, k)

\* C13: with maxKeys = 0 the cache is disabled: a SET stores nothing, the
\* map stays empty and currentMemoryBytes stays 0, and every GET is a miss.
C13_DisabledCacheStoresNothing ==
    cacheConfig.maxKeys = 0 =>
        /\ store = <<>>
        /\ currentMemoryBytes = 0
        /\ \A k \in EngineKeys : get(Eng, k, now).ret = NullVal

(* DELETE *)

\* d is the outcome of delete(e, k): it answers whether k was in the map,
\* and a deleted k is gone from the map and from the policy with its size
\* subtracted
DeleteRemoves(e, k, d) ==
    /\ d.ret = StoreHas(e.store, k)
    /\ d.ret =>
          /\ ~StoreHas(d.eng.store, k)
          /\ k \notin DOMAIN d.eng.evictionPolicy.cache
          /\ d.eng.currentMemoryBytes
                = e.currentMemoryBytes - StoreGet(e.store, k).size

\* d2 is the outcome of a delete on e1: it answers false and changes nothing
DeleteIsNoOp(e1, d2) == d2.ret = FALSE /\ d2.eng = e1

\* C14: DELETE(k) returns true exactly when k is in the primary map, and
\* then k is absent from the map and from the policy and currentMemoryBytes
\* dropped by the size of the entry; a second DELETE(k) returns false and
\* leaves the map, the policy, currentMemoryBytes and the counters as they
\* were.
C14_DeleteRemovesOnce ==
    \A k \in EngineKeys :
        /\ DeleteRemoves(Eng, k, delete(Eng, k))
        /\ DeleteIsNoOp(delete(Eng, k).eng, delete(delete(Eng, k).eng, k))

\* two entries are resident, a has been read again under LFU, and a DELETE
\* of a answers true and a second one false
C14_Witness ==
    /\ cacheConfig.evictionPolicy = "LFU"
    /\ StoreKeys(store) = {"a", "b"}
    /\ "a" \in DOMAIN evictionPolicy.cache
    /\ evictionPolicy.cache["a"].frequency = 2
    /\ delete(Eng, "a").ret = TRUE
    /\ StoreKeys(delete(Eng, "a").eng.store) = {"b"}
    /\ delete(delete(Eng, "a").eng, "a").ret = FALSE

(* INCREMENT *)

\* k holds a live value at t that is not a number
HoldsNonNumber(e, k, t) ==
    /\ StoreHas(e.store, k)
    /\ ~ExpiredAt(e, k, t)
    /\ StoreGet(e.store, k).value # NullVal
    /\ StoreGet(e.store, k).value.t # "num"

\* C15: INCREMENT(k) on a key that holds a non-numeric value fails with the
\* error and leaves the whole engine as it was: the map (value, expiration),
\* currentMemoryBytes, the state of the policy and the statistics.
C15_FailedIncrementChangesNothing ==
    \A k \in EngineKeys :
        HoldsNonNumber(Eng, k, now) =>
            /\ increment(Eng, k, 1, now).err
            /\ increment(Eng, k, 1, now).eng = Eng

\* the amounts of the INCREMENT claims
Amounts == (0 - 1)..MaxNumber

\* k is absent from the map or expired at t
AbsentAt(e, k, t) == ~StoreHas(e.store, k) \/ ExpiredAt(e, k, t)

\* k holds the live number n at t
HoldsNumber(e, k, t, n) ==
    /\ StoreHas(e.store, k)
    /\ ~ExpiredAt(e, k, t)
    /\ StoreGet(e.store, k).value = Num(n)

\* inc is the outcome of an INCREMENT of k: it succeeded, returned n and
\* stored n, which a GET at any later time returns
IncrementGives(inc, k, n, t) ==
    /\ ~inc.err
    /\ inc.ret = Num(n)
    /\ StoreHas(inc.eng.store, k)
    /\ StoreGet(inc.eng.store, k).value = Num(n)
    /\ \A t2 \in Later(t) : get(inc.eng, k, t2).ret = Num(n)

\* C16: INCREMENT(k, a) on an absent or expired key stores a and returns a;
\* on a key that holds the number n it stores and returns n + a; two
\* consecutive INCREMENT(k, a) from absent return a and then 2a, and a GET
\* after them returns the value returned last.
C16_IncrementAdds ==
    \A k \in EngineKeys, a \in Amounts, t \in Later(now) :
        /\ AbsentAt(Eng, k, t) =>
              /\ IncrementGives(increment(Eng, k, a, t), k, a, t)
              /\ \A t2 \in Later(t) :
                    IncrementGives(increment(increment(Eng, k, a, t).eng, k, a, t2),
                                   k, 2 * a, t2)
        /\ \A n \in 0..MaxNumber :
              HoldsNumber(Eng, k, t, n) =>
                  IncrementGives(increment(Eng, k, a, t), k, n + a, t)

\* a has been incremented twice from absent, by a miss and then a hit, and
\* a GET returns 2
C16_Witness ==
    /\ StoreHas(store, "a")
    /\ StoreGet(store, "a").value = Num(2)
    /\ stats.misses = 1
    /\ stats.hits = 1
    /\ get(Eng, "a", now).ret = Num(2)

----------------------------------------------------------------------------
(* Clients of POST /increment/:key and the cleanup worker.  A handler of    *)
(* the router and a callback of the worker's timer run to completion on the *)
(* one thread of the process: each is one step.                             *)

Counter == "a"

\* the engine at time t after set('b', <string>, {ttl: 1}) and
\* set(Counter, n)
CounterEngine(cfg, n, t) ==
    set(set(Engine_new(cfg), "b", Str(BigLen), 1, t), Counter, Num(n), NoExpiry, t)

IncrementInit ==
    /\ cacheConfig \in [maxKeys : 0..Cardinality(EngineKeys),
                        evictionPolicy : Policies]
    /\ initial \in 0..1
    /\ now = 1
    /\ store = CounterEngine(cacheConfig, initial, now).store
    /\ evictionPolicy = CounterEngine(cacheConfig, initial, now).evictionPolicy
    /\ currentMemoryBytes = CounterEngine(cacheConfig, initial, now).currentMemoryBytes
    /\ stats = CounterEngine(cacheConfig, initial, now).stats
    /\ lastOp = [op |-> "new", key |-> Nil, ret |-> Nil]
    /\ ref = [order |-> <<>>, uses |-> EmptyMap]
    /\ requests = NoRequests
    /\ entered = <<>>
    /\ WorkerNotStarted
    /\ ProcessListening
    /\ scenario = NoScenario

\* the assignment of an engine record to the state
Assign(e) ==
    /\ store' = e.store
    /\ evictionPolicy' = e.evictionPolicy
    /\ currentMemoryBytes' = e.currentMemoryBytes
    /\ stats' = e.stats

\* client c sends POST /increment/Counter with the given amount
ClientSend(c, amount) ==
    /\ requests[c].pc = "idle"
    /\ requests' = [requests EXCEPT ![c] = [pc |-> "sent", amount |-> amount,
                                            value |-> NullVal]]
    /\ UNCHANGED <<cacheConfig, store, evictionPolicy, currentMemoryBytes, stats,
                   now, lastOp, ref, entered, initial, workerVars, processVars, scenario>>

\* the handler of the route runs for the request of c: it calls
\* cache.increment(key, amount) and answers with the new value
HandleIncrement(c) ==
    /\ requests[c].pc = "sent"
    /\ Assign(increment(Eng, Counter, requests[c].amount, now).eng)
    /\ requests' = [requests EXCEPT
                       ![c].pc = "done",
                       ![c].value = increment(Eng, Counter, requests[c].amount, now).ret]
    /\ entered' = Append(entered, c)
    /\ UNCHANGED <<cacheConfig, now, lastOp, ref, initial, workerVars, processVars, scenario>>

\* the callback of the cleanup worker's timer
SweeperTick ==
    /\ Assign(cleanup(Eng, now).eng)
    /\ UNCHANGED <<cacheConfig, now, lastOp, ref, requests, entered, initial, workerVars, processVars, scenario>>

IncrementNext ==
    \/ Tick
    \/ \E c \in Clients, amount \in 1..MaxNumber : ClientSend(c, amount)
    \/ \E c \in Clients : HandleIncrement(c)
    \/ SweeperTick

IncrementSpec == IncrementInit /\ [][IncrementNext]_vars

RECURSIVE SumAmounts(_, _)
\* the sum of the amounts of the requests of the clients in seq
SumAmounts(reqs, seq) ==
    IF seq = <<>> THEN 0
    ELSE reqs[Head(seq)].amount + SumAmounts(reqs, Tail(seq))

\* C17: INCREMENT requests of several clients on the same numeric key,
\* interleaved in any order with each other and with the ticks of the
\* cleanup worker, lose no update: the counter holds its initial value plus
\* the amounts of all requests that entered the engine, and each response
\* carries the partial sum up to its request in the order of entry.
C17_NoLostUpdate ==
    /\ StoreHas(store, Counter)
    /\ StoreGet(store, Counter).value = Num(initial + SumAmounts(requests, entered))
    /\ \A i \in 1..Len(entered) :
          /\ requests[entered[i]].pc = "done"
          /\ requests[entered[i]].value
                = Num(initial + SumAmounts(requests, SubSeq(entered, 1, i)))
    /\ \A c \in Clients : requests[c].pc = "done" => c \in Range(entered)

\* the three clients were served in the order c2, c3, c1 with the amounts
\* 1, 2, 2 from the initial value 1, and the cleanup worker removed the
\* expired b in between
C17_Witness ==
    /\ entered = <<"c2", "c3", "c1">>
    /\ initial = 1
    /\ requests["c2"].amount = 1
    /\ requests["c3"].amount = 2
    /\ requests["c1"].amount = 2
    /\ requests["c1"].value = Num(6)
    /\ stats.expirations = 1
    /\ StoreKeys(store) = {Counter}

----------------------------------------------------------------------------
(* The counters of the statistics *)

\* from e1 to e2 exactly one of hits and misses went up, by one
OneGetCounted(e1, e2) ==
    \/ e2.stats.hits = e1.stats.hits + 1 /\ e2.stats.misses = e1.stats.misses
    \/ e2.stats.hits = e1.stats.hits /\ e2.stats.misses = e1.stats.misses + 1

\* from e1 to e2 hits and misses went up by n together, neither went down
GetsCounted(e1, e2, n) ==
    /\ e2.stats.hits >= e1.stats.hits
    /\ e2.stats.misses >= e1.stats.misses
    /\ e2.stats.hits + e2.stats.misses = e1.stats.hits + e1.stats.misses + n

\* C18: hits + misses counts the executions of GET: a GET raises exactly one
\* of hits and misses by 1, a batch GET does so once for each of its keys, an
\* INCREMENT once; SET, DELETE, EXISTS, UPDATE-TTL, CLEAR, the batch SET and
\* DELETE and cleanup leave both as they are.
C18_HitsPlusMissesCountGets ==
    \A k \in EngineKeys :
        /\ OneGetCounted(Eng, get(Eng, k, now).eng)
        /\ OneGetCounted(Eng, increment(Eng, k, 1, now).eng)
        /\ \A ks \in Batches(EngineKeys) :
              /\ GetsCounted(Eng, getMultiple(Eng, ks, now).eng, Len(ks))
              /\ GetsCounted(Eng, deleteMultiple(Eng, ks).eng, 0)
        /\ \A value \in SetValues, ttl \in TTLs :
              GetsCounted(Eng, set(Eng, k, value, ttl, now), 0)
        /\ \A entries \in Batches(BatchEntries) :
              GetsCounted(Eng, setMultiple(Eng, entries, now), 0)
        /\ GetsCounted(Eng, delete(Eng, k).eng, 0)
        /\ GetsCounted(Eng, exists(Eng, k, now).eng, 0)
        /\ GetsCounted(Eng, updateTTL(Eng, k, 1, now).eng, 0)
        /\ GetsCounted(Eng, clear(Eng), 0)
        /\ GetsCounted(Eng, cleanup(Eng, now).eng, 0)

\* two GETs have been executed, a hit and a miss, and nothing else was
\* counted
C18_Witness ==
    /\ stats.hits = 1
    /\ stats.misses = 1
    /\ stats.evictions = 0
    /\ stats.expirations = 0
    /\ Len(stats.operations) = 2
    /\ \E k \in EngineKeys : get(Eng, k, now).eng.stats.hits = 2

\* from e1 to e2 neither evictions nor expirations changed
NoRemovalCounted(e1, e2) ==
    /\ e2.stats.evictions = e1.stats.evictions
    /\ e2.stats.expirations = e1.stats.expirations

\* from e1 to e2 evictions did not change and expirations went up by the
\* number of the entries removed, all of them expired at t
OnlyExpirationsCounted(e1, e2, t) ==
    /\ e2.stats.evictions = e1.stats.evictions
    /\ CountsRemoved(e1, e2)
    /\ \A k \in StoreKeys(e1.store) \ StoreKeys(e2.store) : ExpiredAt(e1, k, t)

\* the memory enforcement took e to mid: evictions went up by the number of
\* the entries it removed, expirations did not change
EnforcementCountsVictims(e, mid) ==
    /\ mid.stats.evictions - e.stats.evictions = Len(e.store) - Len(mid.store)
    /\ mid.stats.expirations = e.stats.expirations

\* a SET of k took e to fin, through mid after its memory enforcement:
\* evictions went up by the number of the entries removed on the way (the
\* entry of k is added when mid does not hold it), expirations did not change
SetCountsVictims(e, mid, fin, k) ==
    /\ EnforcementCountsVictims(e, mid)
    /\ fin.stats.evictions - mid.stats.evictions
          = Len(mid.store) + (IF StoreHas(mid.store, k) THEN 0 ELSE 1)
              - Len(fin.store)
    /\ fin.stats.expirations = e.stats.expirations

\* C19: evictions goes up by exactly 1 for each entry removed as the victim
\* of the policy, by the key-count overflow of a SET or by the memory
\* enforcement, and DELETE, batch DELETE, lazy expiration, cleanup and CLEAR
\* do not change it; expirations changes only by the number of the entries
\* removed because they were expired.
C19_EvictionsCountVictimsOnly ==
    \A k \in EngineKeys :
        /\ \A value \in SetValues, ttl \in TTLs :
              SetCountsVictims(Eng,
                               enforceMemoryLimit(Eng, calculateEntrySize(k, value)),
                               set(Eng, k, value, ttl, now), k)
        /\ NoRemovalCounted(Eng, delete(Eng, k).eng)
        /\ \A ks \in Batches(EngineKeys) :
              /\ NoRemovalCounted(Eng, deleteMultiple(Eng, ks).eng)
              /\ OnlyExpirationsCounted(Eng, getMultiple(Eng, ks, now).eng, now)
        /\ NoRemovalCounted(Eng, clear(Eng))
        /\ NoRemovalCounted(Eng, updateTTL(Eng, k, 1, now).eng)
        /\ OnlyExpirationsCounted(Eng, get(Eng, k, now).eng, now)
        /\ OnlyExpirationsCounted(Eng, exists(Eng, k, now).eng, now)
        /\ OnlyExpirationsCounted(Eng, cleanup(Eng, now).eng, now)

\* one entry has been evicted and another one removed as expired without a
\* GET, and a SET of a big value to the absent key evicts once more
C19_Witness ==
    /\ stats.evictions = 1
    /\ stats.expirations = 1
    /\ stats.hits = 0
    /\ stats.misses = 0
    /\ StoreKeys(store) = {"b"}
    /\ set(Eng, "a", Str(BigLen), 0, now).stats.evictions = 2

(* EXISTS *)

\* x is the outcome of exists(e, k, t) on an entry expired at t: the entry
\* is removed from the map and the policy with its size, expirations went
\* up by one and nothing else was counted
ExistsRemovesExpired(e, k, x) ==
    /\ x.ret = FALSE
    /\ ~StoreHas(x.eng.store, k)
    /\ k \notin DOMAIN x.eng.evictionPolicy.cache
    /\ x.eng.currentMemoryBytes = e.currentMemoryBytes - StoreGet(e.store, k).size
    /\ x.eng.stats = [e.stats EXCEPT !.expirations = @ + 1]

\* C20: EXISTS(k) returns true exactly when k is resident and not expired
\* and never changes hits or misses; on an expired k it removes the entry,
\* raises expirations by 1 and returns false; on a live or absent k it
\* changes nothing, the policy's order and frequencies included.
C20_ExistsOnlyExpires ==
    \A k \in EngineKeys, t \in Later(now) :
        /\ exists(Eng, k, t).ret = (StoreHas(store, k) /\ ~ExpiredAt(Eng, k, t))
        /\ GetsCounted(Eng, exists(Eng, k, t).eng, 0)
        /\ IF ExpiredAt(Eng, k, t)
           THEN ExistsRemovesExpired(Eng, k, exists(Eng, k, t))
           ELSE exists(Eng, k, t).eng = Eng

\* a is resident and live, b is resident and expired: EXISTS answers true
\* for a and, removing b, false for b
C20_Witness ==
    /\ StoreKeys(store) = {"a", "b"}
    /\ ~ExpiredAt(Eng, "a", now)
    /\ ExpiredAt(Eng, "b", now)
    /\ exists(Eng, "a", now).ret = TRUE
    /\ exists(Eng, "b", now).ret = FALSE
    /\ StoreKeys(exists(Eng, "b", now).eng.store) = {"a"}

----------------------------------------------------------------------------
(* UPDATE-TTL and the expiration instant written by SET *)

\* the entries of the keys other than k
OtherEntries(e, k) == {e.store[i] : i \in {j \in 1..Len(e.store) : e.store[j].key # k}}

\* u is the outcome of updateTTL(e, k, ttl, t) on a key of the map: only the
\* expiration instant of k changed
OnlyExpiresAtChanged(e, k, ttl, t, u) ==
    /\ u.ret = TRUE
    /\ StoreHas(u.eng.store, k)
    /\ StoreGet(u.eng.store, k)
          = [StoreGet(e.store, k) EXCEPT !.expiresAt = t + ttl]
    /\ ~IsExpired(StoreGet(u.eng.store, k), t + ttl)
    /\ IsExpired(StoreGet(u.eng.store, k), t + ttl + 1)
    /\ keys(u.eng) = keys(e)
    /\ OtherEntries(u.eng, k) = OtherEntries(e, k)
    /\ u.eng.currentMemoryBytes = e.currentMemoryBytes
    /\ u.eng.stats = e.stats
    /\ u.eng.evictionPolicy = e.evictionPolicy
    /\ PolicyEvict(u.eng.evictionPolicy) = PolicyEvict(e.evictionPolicy)

\* C21: UPDATE-TTL(k, ttl) on a resident (live) key sets its expiration
\* instant to now + ttl and returns true, and changes neither the value, the
\* size, currentMemoryBytes, the counters nor the state of the policy, so
\* that the next victim is the same; on an absent key it returns false and
\* changes nothing.
C21_UpdateTTLOnlySetsExpiry ==
    \A k \in EngineKeys, ttl \in 1..2 :
        /\ (StoreHas(store, k) /\ ~ExpiredAt(Eng, k, now)) =>
              OnlyExpiresAtChanged(Eng, k, ttl, now, updateTTL(Eng, k, ttl, now))
        /\ ~StoreHas(store, k) =>
              /\ updateTTL(Eng, k, ttl, now).ret = FALSE
              /\ updateTTL(Eng, k, ttl, now).eng = Eng

\* under LRU a and b are resident without a TTL, a is the next victim, and
\* an UPDATE-TTL of a answers true and gives a the expiration instant now + 1
C21_Witness ==
    /\ cacheConfig = [maxKeys |-> 2, evictionPolicy |-> "LRU"]
    /\ StoreKeys(store) = {"a", "b"}
    /\ StoreGet(store, "a").expiresAt = NoExpiry
    /\ PolicyEvict(evictionPolicy).key = "a"
    /\ updateTTL(Eng, "a", 1, now).ret = TRUE
    /\ StoreGet(updateTTL(Eng, "a", 1, now).eng.store, "a").expiresAt = now + 1

\* the times at which an entry written at t is looked at again: the next
\* milliseconds and one far beyond every TTL
Afterwards(t) == Later(t) \cup {t + OperationWindow}

\* in e the key k holds value and no expiration instant: it is live at every
\* later time and a GET returns the value
Eternal(e, k, value, t) ==
    /\ StoreHas(e.store, k)
    /\ StoreGet(e.store, k).expiresAt = NoExpiry
    /\ \A t2 \in Afterwards(t) :
          /\ ~ExpiredAt(e, k, t2)
          /\ get(e, k, t2).ret = value

\* in e the key k expires at the instant at: live up to it, expired after it
ExpiresAt(e, k, at) ==
    /\ StoreHas(e.store, k)
    /\ StoreGet(e.store, k).expiresAt = at
    /\ ~ExpiredAt(e, k, at)
    /\ ExpiredAt(e, k, at + 1)

\* inc is the outcome of an INCREMENT of k at t: when it succeeded k is eternal
IncrementMakesEternal(inc, k, t) == ~inc.err => Eternal(inc.eng, k, inc.ret, t)

\* C22: a SET without a TTL leaves the key with no expiration instant,
\* whatever it had before, and the entry never expires afterwards; so does
\* the SET inside a successful INCREMENT; a SET with the TTL ttl sets the
\* expiration instant to now + ttl, replacing an earlier one.
C22_SetReplacesExpiry ==
    \A k \in EngineKeys, t \in Later(now) :
        /\ \A value \in SetValues :
              /\ Eternal(set(Eng, k, value, 0, t), k, value, t)
              /\ \A ttl \in 1..2 : ExpiresAt(set(Eng, k, value, ttl, t), k, t + ttl)
        /\ IncrementMakesEternal(increment(Eng, k, 1, t), k, t)

\* a holds the number 1 with an expiration instant that has not passed, and
\* an INCREMENT leaves it with the number 2 and no expiration instant
C22_Witness ==
    /\ StoreHas(store, "a")
    /\ StoreGet(store, "a").value = Num(1)
    /\ StoreGet(store, "a").expiresAt = now
    /\ ~increment(Eng, "a", 1, now).err
    /\ StoreGet(increment(Eng, "a", 1, now).eng.store, "a").value = Num(2)
    /\ StoreGet(increment(Eng, "a", 1, now).eng.store, "a").expiresAt = NoExpiry

----------------------------------------------------------------------------
(* CLEAR and resetStats *)

\* the part of the engine that decides the later SETs, GETs and evictions
Contents(e) == [store |-> e.store, evictionPolicy |-> e.evictionPolicy,
                currentMemoryBytes |-> e.currentMemoryBytes]

\* two SETs and a GET of the first key, on e
SetSetGet(e, k1, k2, value, t) ==
    get(set(set(e, k1, value, 0, t), k2, value, 0, t), k1, t)

\* c is the engine after CLEAR: SETs, GETs and the evictions they make go
\* as on the newly constructed engine fresh
BehavesAsNew(c, fresh, t) ==
    \A k1 \in EngineKeys, k2 \in EngineKeys, value \in SetValues :
        /\ Contents(SetSetGet(c, k1, k2, value, t).eng)
              = Contents(SetSetGet(fresh, k1, k2, value, t).eng)
        /\ SetSetGet(c, k1, k2, value, t).ret
              = SetSetGet(fresh, k1, k2, value, t).ret
        /\ SetSetGet(c, k1, k2, value, t).eng.stats.evictions - c.stats.evictions
              = SetSetGet(fresh, k1, k2, value, t).eng.stats.evictions

\* C23: CLEAR leaves the map and the policy empty (for LFU minFrequency = 0
\* and no frequency list) and currentMemoryBytes = 0, and leaves hits,
\* misses, evictions, expirations and the operations buffer as they were;
\* afterwards SETs, GETs and evictions go as on a newly constructed engine.
C23_ClearEmptiesButKeepsStats ==
    /\ clear(Eng).store = <<>>
    /\ clear(Eng).currentMemoryBytes = 0
    /\ PolicySize(clear(Eng).evictionPolicy) = 0
    /\ clear(Eng).evictionPolicy.frequencyMap = EmptyMap
    /\ clear(Eng).evictionPolicy.minFrequency = 0
    /\ PolicyEvict(clear(Eng).evictionPolicy).key = Nil
    /\ clear(Eng).stats = stats
    /\ Contents(clear(Eng)) = Contents(Engine_new(cacheConfig))
    /\ BehavesAsNew(clear(Eng), Engine_new(cacheConfig), now)

\* under LFU two keys are resident, one of them read again, after a hit and
\* an eviction; CLEAR empties the map and takes minFrequency back to 0
C23_Witness ==
    /\ cacheConfig.evictionPolicy = "LFU"
    /\ Len(store) = 2
    /\ evictionPolicy.minFrequency >= 1
    /\ DOMAIN evictionPolicy.frequencyMap # {}
    /\ stats.hits = 1
    /\ stats.evictions = 1
    /\ clear(Eng).stats.hits = 1
    /\ clear(Eng).evictionPolicy.minFrequency = 0

\* from e1 to e2 none of the four counters went down
CountersGrow(e1, e2) ==
    /\ e2.stats.hits >= e1.stats.hits
    /\ e2.stats.misses >= e1.stats.misses
    /\ e2.stats.evictions >= e1.stats.evictions
    /\ e2.stats.expirations >= e1.stats.expirations

\* C24: resetStats sets hits, misses, evictions and expirations to 0 and
\* empties the operations buffer, and leaves the entries, currentMemoryBytes
\* and the policy as they were; no other operation makes one of the four
\* counters smaller.
C24_ResetZeroesCountersOnly ==
    /\ resetStats(Eng).stats.hits = 0
    /\ resetStats(Eng).stats.misses = 0
    /\ resetStats(Eng).stats.evictions = 0
    /\ resetStats(Eng).stats.expirations = 0
    /\ resetStats(Eng).stats.operations = <<>>
    /\ getStats(resetStats(Eng)).opsPerSecond = 0
    /\ Contents(resetStats(Eng)) = Contents(Eng)
    /\ \A k \in EngineKeys :
          /\ CountersGrow(Eng, get(Eng, k, now).eng)
          /\ CountersGrow(Eng, delete(Eng, k).eng)
          /\ CountersGrow(Eng, exists(Eng, k, now).eng)
          /\ CountersGrow(Eng, increment(Eng, k, 1, now).eng)
          /\ CountersGrow(Eng, updateTTL(Eng, k, 1, now).eng)
          /\ \A value \in SetValues, ttl \in TTLs :
                CountersGrow(Eng, set(Eng, k, value, ttl, now))
    /\ CountersGrow(Eng, clear(Eng))
    /\ CountersGrow(Eng, cleanup(Eng, now).eng)
    /\ \A ks \in Batches(EngineKeys) :
          /\ CountersGrow(Eng, getMultiple(Eng, ks, now).eng)
          /\ CountersGrow(Eng, deleteMultiple(Eng, ks).eng)
    /\ \A entries \in Batches(BatchEntries) :
          CountersGrow(Eng, setMultiple(Eng, entries, now))

\* two entries are resident after a hit and an eviction, and resetStats
\* takes both counters to 0 and keeps the entries
C24_Witness ==
    /\ Len(store) = 2
    /\ stats.hits = 1
    /\ stats.evictions = 1
    /\ stats.operations # <<>>
    /\ resetStats(Eng).stats = Stats_new
    /\ Len(resetStats(Eng).store) = 2

----------------------------------------------------------------------------
(* The batch operations *)

\* the entries of the batches of the claims
ClaimEntries == [key : EngineKeys, value : {Num(1), Str(BigLen)}, ttl : TTLs]

\* one SET of the entry x, as a client makes it
SetOne(e, x, t) == set(e, x.key, x.value, x.ttl, t)

\* C25: from the same state and clock a batch SET of e1..eN ends in the same
\* engine state (map, expiration instants, currentMemoryBytes, policy,
\* counters) as N single SETs of e1..eN in that order, also when the batch
\* repeats a key or evicts on the way.
C25_BatchSetIsSequenceOfSets ==
    \A x1 \in ClaimEntries :
        /\ setMultiple(Eng, <<x1>>, now) = SetOne(Eng, x1, now)
        /\ \A x2 \in ClaimEntries :
              setMultiple(Eng, <<x1, x2>>, now)
                 = SetOne(SetOne(Eng, x1, now), x2, now)

\* with room for one key, b is resident; a batch SET of a and then b evicts
\* twice and leaves b, as the two SETs do
C25_Witness ==
    /\ cacheConfig.maxKeys = 1
    /\ StoreKeys(store) = {"b"}
    /\ StoreKeys(setMultiple(Eng, <<[key |-> "a", value |-> Num(1), ttl |-> 0],
                                    [key |-> "b", value |-> Num(1), ttl |-> 1]>>,
                              now).store) = {"b"}
    /\ setMultiple(Eng, <<[key |-> "a", value |-> Num(1), ttl |-> 0],
                          [key |-> "b", value |-> Num(1), ttl |-> 1]>>,
                   now).stats.evictions = stats.evictions + 2

\* the mapping with k -> value when the GET found a value, on top of m
Found(m, k, value) == IF value # NullVal THEN MapPut(m, k, value) ELSE m

\* the list with k when the DELETE removed it
Removed(k, deleted) == IF deleted THEN <<k>> ELSE <<>>

\* gm is the outcome of a batch GET of <<k1, k2>> on e: the single GETs g1
\* of k1 on e and g2 of k2 after it give the same engine and the same mapping
BatchGetIsGets(gm, g1, g2, k1, k2) ==
    /\ gm.eng = g2.eng
    /\ gm.ret = Found(Found(EmptyMap, k1, g1.ret), k2, g2.ret)

\* dm is the outcome of a batch DELETE of <<k1, k2>> on e: the single
\* DELETEs d1 of k1 on e and d2 of k2 after it give the same engine, and the
\* list holds the keys they removed, in the order of the request
BatchDeleteIsDeletes(dm, d1, d2, k1, k2) ==
    /\ dm.eng = d2.eng
    /\ dm.ret = Removed(k1, d1.ret) \o Removed(k2, d2.ret)

\* C26: a batch GET returns the mapping of exactly the requested keys for
\* which a single GET at that point of the iteration finds a live value,
\* with that value, and applies the effects of GET once per requested key in
\* order; a batch DELETE returns, in the order of the request, exactly the
\* keys it removed: not an absent key, not the second occurrence of a key.
C26_BatchGetAndDeleteFollowSingles ==
    \A k1 \in EngineKeys :
        /\ getMultiple(Eng, <<k1>>, now).eng = get(Eng, k1, now).eng
        /\ getMultiple(Eng, <<k1>>, now).ret
              = Found(EmptyMap, k1, get(Eng, k1, now).ret)
        /\ DOMAIN getMultiple(Eng, <<k1>>, now).ret
              = {k \in {k1} : StoreHas(store, k) /\ ~ExpiredAt(Eng, k, now)}
        /\ deleteMultiple(Eng, <<k1>>).eng = delete(Eng, k1).eng
        /\ deleteMultiple(Eng, <<k1>>).ret = Removed(k1, StoreHas(store, k1))
        /\ deleteMultiple(Eng, <<k1, k1>>).ret = Removed(k1, StoreHas(store, k1))
        /\ \A k2 \in EngineKeys :
              /\ BatchGetIsGets(getMultiple(Eng, <<k1, k2>>, now),
                                get(Eng, k1, now),
                                get(get(Eng, k1, now).eng, k2, now), k1, k2)
              /\ DOMAIN getMultiple(Eng, <<k1, k2>>, now).ret
                    = {k \in {k1, k2} : StoreHas(store, k) /\ ~ExpiredAt(Eng, k, now)}
              /\ BatchDeleteIsDeletes(deleteMultiple(Eng, <<k1, k2>>),
                                      delete(Eng, k1),
                                      delete(delete(Eng, k1).eng, k2), k1, k2)

\* a is resident and live, b is resident and expired: the batch GET of b
\* and a returns a alone and removes b, the batch DELETE of a twice reports
\* a once, and the one of b and a reports b and a
C26_Witness ==
    /\ StoreKeys(store) = {"a", "b"}
    /\ ~ExpiredAt(Eng, "a", now)
    /\ ExpiredAt(Eng, "b", now)
    /\ DOMAIN getMultiple(Eng, <<"b", "a">>, now).ret = {"a"}
    /\ StoreKeys(getMultiple(Eng, <<"b", "a">>, now).eng.store) = {"a"}
    /\ deleteMultiple(Eng, <<"a", "a">>).ret = <<"a">>
    /\ deleteMultiple(Eng, <<"b", "a">>).ret = <<"b", "a">>

----------------------------------------------------------------------------
(* The cleanup sweep *)

\* the keys of the entries of e with an expiration instant before t
DueAt(e, t) ==
    {e.store[i].key : i \in {j \in 1..Len(e.store) :
                                /\ e.store[j].expiresAt # NoExpiry
                                /\ e.store[j].expiresAt < t}}

\* the entries of e whose key is not in S, in the order of the map
EntriesWithout(e, S) ==
    LET keep(x) == x.key \notin S IN SelectSeq(e.store, keep)

\* c is the outcome of a sweep of e at t, due the keys it had to remove
SweepRemoves(e, c, due) ==
    /\ c.ret = Cardinality(due)
    /\ c.eng.store = EntriesWithout(e, due)
    /\ DOMAIN c.eng.evictionPolicy.cache = DOMAIN e.evictionPolicy.cache \ due
    /\ c.eng.currentMemoryBytes
          = e.currentMemoryBytes - (SumSizes(e.store) - SumSizes(c.eng.store))
    /\ c.eng.stats = [e.stats EXCEPT !.expirations = @ + Cardinality(due)]

\* C27: a cleanup sweep at time t removes exactly the resident entries with
\* an expiration instant < t, from the map and the policy, subtracting
\* their sizes; it raises expirations by the number removed and returns
\* that number; the other entries and hits, misses and evictions stay as
\* they were.
C27_SweepRemovesExactlyExpired ==
    \A t \in Later(now) : SweepRemoves(Eng, cleanup(Eng, t), DueAt(Eng, t))

\* a and b are resident and both expired: the sweep removes the two and
\* returns 2
C27_Witness ==
    /\ StoreKeys(store) = {"a", "b"}
    /\ DueAt(Eng, now) = {"a", "b"}
    /\ cleanup(Eng, now).ret = 2
    /\ cleanup(Eng, now).eng.store = <<>>
    /\ cleanup(Eng, now).eng.stats.expirations = stats.expirations + 2

----------------------------------------------------------------------------
(* The cleanup worker: startCleanupWorker, stopCleanupWorker and the        *)
(* callback of its interval timer, next to clients that SET and DELETE.     *)

MaxTimers == 2

\* the worker as one record
Worker == [cleanupInterval |-> cleanupInterval, timers |-> timers,
           timersCreated |-> timersCreated]

startCleanupWorker_noTimer(w) ==
    IF w.cleanupInterval # NoTimer THEN w
    ELSE [w EXCEPT !.cleanupInterval = w.timersCreated + 1,
                   !.timersCreated = @ + 1]

startCleanupWorker_noGuard(w) ==
    [cleanupInterval |-> w.timersCreated + 1,
     timers |-> w.timers \cup {w.timersCreated + 1},
     timersCreated |-> w.timersCreated + 1]

\* setInterval returns a timer that no earlier call returned
startCleanupWorker(w) ==
    IF w.cleanupInterval # NoTimer THEN w
    ELSE [cleanupInterval |-> w.timersCreated + 1,
          timers |-> w.timers \cup {w.timersCreated + 1},
          timersCreated |-> w.timersCreated + 1]

stopCleanupWorker(w) ==
    IF w.cleanupInterval # NoTimer
    THEN [w EXCEPT !.timers = @ \ {w.cleanupInterval},
                   !.cleanupInterval = NoTimer]
    ELSE w

\* the assignment of a worker record to the state
AssignWorker(w) ==
    /\ cleanupInterval' = w.cleanupInterval
    /\ timers' = w.timers
    /\ timersCreated' = w.timersCreated

StartCleanupWorker ==
    /\ timersCreated < MaxTimers
    /\ AssignWorker(startCleanupWorker(Worker))
    /\ UNCHANGED <<cacheConfig, store, evictionPolicy, currentMemoryBytes, stats,
                   now, lastOp, ref, requests, entered, initial, processVars, scenario>>

StopCleanupWorker ==
    /\ AssignWorker(stopCleanupWorker(Worker))
    /\ UNCHANGED <<cacheConfig, store, evictionPolicy, currentMemoryBytes, stats,
                   now, lastOp, ref, requests, entered, initial, processVars, scenario>>

\* the callback of the active timer id runs: one sweep, run to completion
TimerTick(id) ==
    /\ id \in timers
    /\ Assign(cleanup(Eng, now).eng)
    /\ UNCHANGED <<cacheConfig, now, lastOp, ref, requests, entered, initial,
                   workerVars, processVars, scenario>>

WorkerNext ==
    \/ Tick
    \/ \E k \in EngineKeys, value \in SetValues, ttl \in TTLs : Set(k, value, ttl)
    \/ \E k \in EngineKeys : Delete(k)
    \/ StartCleanupWorker
    \/ StopCleanupWorker
    \/ \E id \in 1..MaxTimers : TimerTick(id)

WorkerSpec == Init /\ [][WorkerNext]_vars

\* the clients of the liveness check SET small values only
WorkerLiveNext ==
    \/ Tick
    \/ \E k \in EngineKeys, ttl \in TTLs : Set(k, Num(1), ttl)
    \/ \E k \in EngineKeys : Delete(k)
    \/ StartCleanupWorker
    \/ StopCleanupWorker
    \/ \E id \in 1..MaxTimers : TimerTick(id)

\* the clock advances and an active timer keeps firing
WorkerLiveSpec ==
    /\ Init
    /\ [][WorkerLiveNext]_vars
    /\ WF_vars(Tick)
    /\ WF_vars(\E id \in 1..MaxTimers : TimerTick(id))

\* k is resident with an expiration instant
HasTTL(k) == StoreHas(store, k) /\ StoreGet(store, k).expiresAt # NoExpiry

\* C28: while the cleanup worker is running, an entry set with a TTL is
\* eventually removed from the cache after its expiration instant, also
\* when no client accesses the key again (it may be overwritten, deleted or
\* evicted before), given that the timer keeps firing.
C28_ExpiredEntryEventuallySwept ==
    \A k \in EngineKeys :
        (HasTTL(k) /\ cleanupInterval # NoTimer)
            ~> (~HasTTL(k) \/ cleanupInterval = NoTimer)

\* the worker is running and its sweep has removed an expired entry that no
\* client had read
C28_Witness ==
    /\ cleanupInterval # NoTimer
    /\ stats.expirations = 1
    /\ stats.misses = 0
    /\ store = <<>>
    /\ now = MaxTime

\* C29: after any sequence of startCleanupWorker and stopCleanupWorker at
\* most one interval timer is active; a start while one is running creates
\* no second timer, a stop while none is running does nothing, after a stop
\* no timer is left to run a sweep until the next start, and a start after
\* a stop creates a new timer.
C29_AtMostOneTimer ==
    /\ Cardinality(timers) <= 1
    /\ timers = IF cleanupInterval = NoTimer THEN {} ELSE {cleanupInterval}
    /\ cleanupInterval # NoTimer => startCleanupWorker(Worker) = Worker
    /\ cleanupInterval = NoTimer => stopCleanupWorker(Worker) = Worker
    /\ stopCleanupWorker(Worker).timers = {}
    /\ stopCleanupWorker(Worker).cleanupInterval = NoTimer
    /\ Cardinality(startCleanupWorker(stopCleanupWorker(Worker)).timers) = 1
    /\ startCleanupWorker(stopCleanupWorker(Worker)).cleanupInterval
          \notin (timers \cup {NoTimer})

\* the worker was started, stopped and started again: the second timer is
\* the only one active
C29_Witness ==
    /\ timersCreated = 2
    /\ cleanupInterval = 2
    /\ timers = {2}

\* the key-set invariant and the memory-accounting invariant of the engine
KeySetInvariant == StoreKeys(store) = DOMAIN evictionPolicy.cache

MemoryInvariant ==
    /\ currentMemoryBytes = SumSizes(store)
    /\ currentMemoryBytes <= maxMemoryBytes

\* C30: a sweep runs as one step, never inside an engine operation or
\* another sweep, and the state it observes and the state it leaves both
\* satisfy the key-set invariant and the memory-accounting invariant.
C30_SweepSeesInvariants ==
    [][(\E id \in 1..MaxTimers : TimerTick(id))
          => /\ KeySetInvariant /\ MemoryInvariant
             /\ KeySetInvariant' /\ MemoryInvariant']_vars

----------------------------------------------------------------------------
(* The process: the server of index.ts, the cleanup worker it starts, the   *)
(* SIGTERM and SIGINT handlers of both modules and process.exit.            *)

MaxConnections == 1
MaxSignals == 2

Signals == {"SIGTERM", "SIGINT"}

\* what the signal handlers and the close callback read and write
Process == [server |-> server, signals |-> signals, exitCode |-> exitCode,
            worker |-> Worker, eng |-> Eng]

\* net.Server.close(cb): a listening server stops listening and calls cb
\* without an error once it has closed; on a server that is not listening
\* cb gets ERR_SERVER_NOT_RUNNING
server_close(srv) ==
    IF srv.listening
    THEN [srv EXCEPT !.listening = FALSE, !.closeCallbacks = Append(@, "ok")]
    ELSE [srv EXCEPT !.closeCallbacks = Append(@, "err")]

\* process.kill(process.pid, sig)
process_kill(p, sig) == [p EXCEPT !.signals[sig] = @ + 1]

\* the handlers of index.ts
index_onSignal(p, sig) ==
    IF sig = "SIGTERM"
    THEN [p EXCEPT !.server = server_close(p.server)]
    ELSE process_kill(p, "SIGTERM")

\* the handlers of the cleanup worker module
worker_onSignal(p, sig) == [p EXCEPT !.worker = stopCleanupWorker(p.worker)]

emit_indexOnly(p, sig) == index_onSignal(p, sig)

\* process.emit(sig): the listeners run in the order of their registration;
\* index.ts registers its own before the worker module is loaded
emit(p, sig) == worker_onSignal(index_onSignal(p, sig), sig)

\* the callback index.ts passes to server.close
closeCallback(p, err) ==
    IF err = "err"
    THEN [p EXCEPT !.exitCode = 1]
    ELSE [p EXCEPT !.eng = clear(p.eng), !.exitCode = 0]

\* the assignment of a process record to the state
AssignProcess(p) ==
    /\ server' = p.server
    /\ signals' = p.signals
    /\ exitCode' = p.exitCode
    /\ AssignWorker(p.worker)
    /\ Assign(p.eng)

Running == exitCode = NotExited

\* index.ts up to the first turn of the event loop: the engine is built, the
\* server listens and the cleanup worker is started
LifecycleInit ==
    /\ cacheConfig \in [maxKeys : 0..Cardinality(EngineKeys),
                        evictionPolicy : Policies]
    /\ store = Engine_new(cacheConfig).store
    /\ evictionPolicy = Engine_new(cacheConfig).evictionPolicy
    /\ currentMemoryBytes = Engine_new(cacheConfig).currentMemoryBytes
    /\ stats = Engine_new(cacheConfig).stats
    /\ now = 1
    /\ lastOp = [op |-> "new", key |-> Nil, ret |-> Nil]
    /\ ref = [order |-> <<>>, uses |-> EmptyMap]
    /\ requests = NoRequests
    /\ entered = <<>>
    /\ initial = 0
    /\ cleanupInterval = startCleanupWorker(NewWorker).cleanupInterval
    /\ timers = startCleanupWorker(NewWorker).timers
    /\ timersCreated = startCleanupWorker(NewWorker).timersCreated
    /\ ProcessListening
    /\ scenario = NoScenario

\* a client connects and sends a request
Connect ==
    /\ Running
    /\ server.listening
    /\ server.connections < MaxConnections
    /\ server' = [server EXCEPT !.connections = @ + 1]
    /\ UNCHANGED <<cacheConfig, store, evictionPolicy, currentMemoryBytes, stats,
                   now, lastOp, ref, requests, entered, initial, workerVars,
                   signals, exitCode, scenario>>

\* the handler of an open connection runs a SET, answers, and the
\* connection ends
Serve(k, ttl) ==
    /\ Running
    /\ server.connections > 0
    /\ ttl # 0 => now + ttl < MaxTime
    /\ WithinBounds(set(Eng, k, Num(1), ttl, now))
    /\ Assign(set(Eng, k, Num(1), ttl, now))
    /\ server' = [server EXCEPT !.connections = @ - 1]
    /\ UNCHANGED <<cacheConfig, now, lastOp, ref, requests, entered, initial,
                   workerVars, signals, exitCode, scenario>>

\* the handler of an open connection answers GET /health, which does not
\* call the engine, and the connection ends
ServeHealth ==
    /\ Running
    /\ server.connections > 0
    /\ server' = [server EXCEPT !.connections = @ - 1]
    /\ UNCHANGED <<cacheConfig, store, evictionPolicy, currentMemoryBytes, stats,
                   now, lastOp, ref, requests, entered, initial, workerVars,
                   signals, exitCode, scenario>>

\* somebody sends the process a signal
Kill(sig) ==
    /\ Running
    /\ signals.sent < MaxSignals
    /\ signals' = [signals EXCEPT ![sig] = @ + 1, !.sent = @ + 1]
    /\ UNCHANGED <<cacheConfig, store, evictionPolicy, currentMemoryBytes, stats,
                   now, lastOp, ref, requests, entered, initial, workerVars,
                   server, exitCode, scenario>>

\* the event loop delivers a pending signal to its listeners
Deliver(sig) ==
    /\ Running
    /\ signals[sig] > 0
    /\ AssignProcess(emit([Process EXCEPT !.signals[sig] = @ - 1], sig))
    /\ UNCHANGED <<cacheConfig, now, lastOp, ref, requests, entered, initial,
                   scenario>>

\* the server emits 'close': it does not listen and its last connection has
\* ended; process.exit in the first callback ends the process
ServerClosed ==
    /\ Running
    /\ ~server.listening
    /\ server.connections = 0
    /\ server.closeCallbacks # <<>>
    /\ AssignProcess(closeCallback(Process, Head(server.closeCallbacks)))
    /\ UNCHANGED <<cacheConfig, now, lastOp, ref, requests, entered, initial,
                   scenario>>

\* the clock and the timers of a process that has not exited
ClockTick == Running /\ Tick

Sweep(id) == Running /\ TimerTick(id)

LifecycleNext ==
    \/ ClockTick
    \/ Connect
    \/ \E ttl \in TTLs : Serve(Counter, ttl)
    \/ ServeHealth
    \/ \E sig \in Signals : Kill(sig)
    \/ \E sig \in Signals : Deliver(sig)
    \/ ServerClosed
    \/ \E id \in 1..MaxTimers : Sweep(id)

\* pending signals are delivered, open connections are served and the
\* 'close' event of a drained server is emitted
LifecycleSpec ==
    /\ LifecycleInit
    /\ [][LifecycleNext]_vars
    /\ WF_vars(\E sig \in Signals : Deliver(sig))
    /\ WF_vars(ServeHealth \/ \E ttl \in TTLs : Serve(Counter, ttl))
    /\ WF_vars(ServerClosed)

\* the process has exited with code 0, the server closed and drained, the
\* worker stopped with no timer left and the engine cleared
ExitedClean ==
    /\ exitCode = 0
    /\ ~server.listening
    /\ server.connections = 0
    /\ cleanupInterval = NoTimer
    /\ timers = {}
    /\ store = <<>>
    /\ DOMAIN evictionPolicy.cache = {}
    /\ currentMemoryBytes = 0

\* a step that clears the engine for the exit or leaves the process is taken
\* with the server closed and drained and the worker stopped
ExitsInOrder ==
    exitCode' # exitCode =>
        /\ ~server.listening
        /\ server.connections = 0
        /\ cleanupInterval = NoTimer
        /\ timers = {}
        /\ store' = <<>>

\* a stopped worker stays stopped and nothing expires by a sweep
NoSweepAfterStop ==
    cleanupInterval = NoTimer =>
        /\ cleanupInterval' = NoTimer
        /\ timers' = {}
        /\ stats'.expirations = stats.expirations

----------------------------------------------------------------------------
(* The memory scenario: 50 SETs of distinct keys with equal string values   *)
(* into a new engine.                                                       *)

ScenarioSets == 50

\* the keys of the scenario in the order they are written
ScenarioKeys ==
    <<"largeKey0", "largeKey1", "largeKey2", "largeKey3", "largeKey4",
       "largeKey5", "largeKey6", "largeKey7", "largeKey8", "largeKey9",
       "largeKey10", "largeKey11", "largeKey12", "largeKey13",
       "largeKey14", "largeKey15", "largeKey16", "largeKey17",
       "largeKey18", "largeKey19", "largeKey20", "largeKey21",
       "largeKey22", "largeKey23", "largeKey24", "largeKey25",
       "largeKey26", "largeKey27", "largeKey28", "largeKey29",
       "largeKey30", "largeKey31", "largeKey32", "largeKey33",
       "largeKey34", "largeKey35", "largeKey36", "largeKey37",
       "largeKey38", "largeKey39", "largeKey40", "largeKey41",
       "largeKey42", "largeKey43", "largeKey44", "largeKey45",
       "largeKey46", "largeKey47", "largeKey48", "largeKey49">>

\* maxKeys of the engine test and of the scenario
ScenarioMaxKeys == {10, 10000}
\* the lengths of the string values
ScenarioLengths == {1000, 100000}

ScenarioInit ==
    /\ cacheConfig \in [maxKeys : ScenarioMaxKeys, evictionPolicy : Policies]
    /\ store = Engine_new(cacheConfig).store
    /\ evictionPolicy = Engine_new(cacheConfig).evictionPolicy
    /\ currentMemoryBytes = Engine_new(cacheConfig).currentMemoryBytes
    /\ stats = Engine_new(cacheConfig).stats
    /\ now = 1
    /\ lastOp = [op |-> "new", key |-> Nil, ret |-> Nil]
    /\ ref = [order |-> <<>>, uses |-> EmptyMap]
    /\ requests = NoRequests
    /\ entered = <<>>
    /\ initial = 0
    /\ WorkerNotStarted
    /\ ProcessListening
    /\ scenario \in [length : ScenarioLengths, written : {0}]

\* the next SET of the loop
ScenarioSet ==
    /\ scenario.written < ScenarioSets
    /\ Assign(set(Eng, ScenarioKeys[scenario.written + 1], Str(scenario.length),
                  0, now))
    /\ scenario' = [scenario EXCEPT !.written = @ + 1]
    /\ UNCHANGED <<cacheConfig, now, lastOp, ref, requests, entered, initial,
                   workerVars, processVars>>

ScenarioNext == ScenarioSet

ScenarioSpec == ScenarioInit /\ [][ScenarioNext]_vars

\* C32: with maxMemoryMB = 1, maxKeys = 10000 and LRU, 50 SETs of distinct
\* keys with 1000-byte string values into an empty cache end with
\* currentMemoryBytes <= 1,048,576, evictions > 0 and fewer than 50 keys.
C32_MemoryScenarioEvicts ==
    (/\ cacheConfig = [maxKeys |-> 10000, evictionPolicy |-> "LRU"]
     /\ scenario = [length |-> 1000, written |-> ScenarioSets])
        => /\ currentMemoryBytes <= maxMemoryBytes
           /\ stats.evictions > 0
           /\ Len(store) < ScenarioSets

----------------------------------------------------------------------------
(* Further claims about the replacement policies, checked under PolicySpec *)

RECURSIVE Walk(_, _, _)
\* the keys met from node k through next, at most fuel of them
Walk(cache, k, fuel) ==
    IF k = Nil \/ fuel = 0 THEN <<>>
    ELSE IF k \notin DOMAIN cache THEN <<k>>
         ELSE <<k>> \o Walk(cache, cache[k].next, fuel - 1)

\* the list of an LRU or FIFO policy from head
ListOf(p) == Walk(p.cache, p.head, Cardinality(DOMAIN p.cache) + 1)

Without(seq, k) == SelectSeq(seq, LAMBDA x : x # k)

\* the set of a resident key k took p to r.pol and returned r.key
UpdateEvictsNothing(p, k, r) ==
    /\ r.key = Nil
    /\ DOMAIN r.pol.cache = DOMAIN p.cache
    /\ PolicySize(r.pol) = PolicySize(p)
    /\ r.pol.capacity = p.capacity
    /\ p.kind = "LRU" => ListOf(r.pol) = <<k>> \o Without(ListOf(p), k)
    /\ p.kind = "FIFO" => r.pol = p
    /\ p.kind = "LFU" =>
          /\ r.pol.cache[k].frequency = p.cache[k].frequency + 1
          /\ \A x \in DOMAIN p.cache \ {k} :
                r.pol.cache[x].frequency = p.cache[x].frequency

\* C33: in each policy, set of a key that is already resident evicts
\* nothing: it returns no key and leaves the key set and size() unchanged,
\* also at capacity; LRU moves the key to the head, LFU raises its frequency
\* by one, FIFO changes nothing.
C33_UpdateNeverEvicts ==
    \A k \in DOMAIN evictionPolicy.cache :
        UpdateEvictsNothing(evictionPolicy, k, PolicySet(evictionPolicy, k))

\* a full LRU policy whose least recent key was just set again and is now
\* the head, with nothing evicted
C33_Witness ==
    /\ evictionPolicy.kind = "LRU"
    /\ evictionPolicy.capacity = 2
    /\ PolicySize(evictionPolicy) = 2
    /\ lastOp = [op |-> "set", key |-> "a", ret |-> Nil]
    /\ ref.order = <<"b", "a">>
    /\ evictionPolicy.head = "a"

\* the doubly linked list of an LRU or FIFO policy p is well formed
WellFormedList(p) ==
    /\ Len(ListOf(p)) = PolicySize(p)
    /\ Range(ListOf(p)) = DOMAIN p.cache
    /\ ListOf(p) # <<>> =>
          /\ ListOf(p)[Len(ListOf(p))] = p.tail
          /\ p.cache[p.tail].next = Nil
          /\ p.cache[p.head].prev = Nil
    /\ \A k \in DOMAIN p.cache :
          /\ p.cache[k].next # Nil =>
                /\ p.cache[k].next \in DOMAIN p.cache
                /\ p.cache[p.cache[k].next].prev = k
          /\ p.cache[k].prev # Nil =>
                /\ p.cache[k].prev \in DOMAIN p.cache
                /\ p.cache[p.cache[k].prev].next = k
    /\ p.head = Nil <=> DOMAIN p.cache = {}
    /\ p.tail = Nil <=> DOMAIN p.cache = {}

\* C34: after any sequence of set, get, delete, evict and clear on an LRU or
\* FIFO policy, the walk from head through next ends at tail and visits
\* exactly the keys of the index, each once; prev is the inverse of next;
\* head and tail are null exactly when the index is empty.
C34_ListWellFormed ==
    evictionPolicy.kind \in {"LRU", "FIFO"} => WellFormedList(evictionPolicy)

\* the middle node of a FIFO list of three was just deleted
C34_Witness ==
    /\ evictionPolicy.kind = "FIFO"
    /\ lastOp = [op |-> "delete", key |-> "b", ret |-> "b"]
    /\ ListOf(evictionPolicy) = <<"a", "c">>
    /\ evictionPolicy.cache["c"].prev = "a"

\* the list an LFU policy stores under frequency f, from its head
FrequencyListOf(p, f) ==
    Walk(p.cache, p.frequencyMap[f].head, Cardinality(DOMAIN p.cache) + 1)

\* the resident keys of frequency f from the least to the most recently
\* touched
TouchedAt(p, r, f) == SelectSeq(r.order, LAMBDA x : p.cache[x].frequency = f)

LFUBookkeeping(p, r) ==
    /\ \A k \in DOMAIN p.cache :
          /\ k \in DOMAIN r.uses
          /\ p.cache[k].frequency = r.uses[k]
          /\ p.cache[k].frequency \in DOMAIN p.frequencyMap
          /\ \A f \in DOMAIN p.frequencyMap :
                k \in Range(FrequencyListOf(p, f)) <=> f = p.cache[k].frequency
    /\ \A f \in DOMAIN p.frequencyMap :
          /\ FrequencyListOf(p, f) # <<>>
          /\ p.frequencyMap[f].tail = FrequencyListOf(p, f)[Len(FrequencyListOf(p, f))]
          /\ Cardinality(Range(FrequencyListOf(p, f))) = Len(FrequencyListOf(p, f))
          /\ FrequencyListOf(p, f) = TouchedAt(p, r, f)

\* a key that is not resident enters at frequency 1
InsertsAtOne(p) ==
    \A k \in PolicyKeys \ DOMAIN p.cache :
        p.capacity > 0 =>
            /\ k \in DOMAIN PolicySet(p, k).pol.cache
            /\ PolicySet(p, k).pol.cache[k].frequency = 1

\* C35: in an LFU policy every resident key has frequency 1 + the number of
\* get hits and updating sets on it since its latest insertion and is in
\* exactly one frequency list, the one stored under its frequency; no stored
\* list is empty; each list runs from the least to the most recently arrived
\* at that frequency; a deleted and re-inserted key restarts at frequency 1.
C35_LFUBookkeeping ==
    evictionPolicy.kind = "LFU" =>
        /\ LFUBookkeeping(evictionPolicy, ref)
        /\ InsertsAtOne(evictionPolicy)

\* a was touched after b and both are at frequency 2, behind each other in
\* the list of that frequency, while c, just inserted, is at frequency 1
C35_Witness ==
    /\ evictionPolicy.kind = "LFU"
    /\ lastOp = [op |-> "set", key |-> "c", ret |-> Nil]
    /\ DOMAIN evictionPolicy.frequencyMap = {1, 2}
    /\ FrequencyListOf(evictionPolicy, 2) = <<"b", "a">>
    /\ FrequencyListOf(evictionPolicy, 1) = <<"c">>
    /\ evictionPolicy.minFrequency = 1

\* evict() on policy p gave r: nothing when p holds no key, otherwise one
\* resident key, which is gone afterwards while the others stay
EvictTakesOne(p, r) ==
    /\ r.key = Nil <=> DOMAIN p.cache = {}
    /\ DOMAIN p.cache # {} =>
          /\ r.key \in DOMAIN p.cache
          /\ DOMAIN r.pol.cache = DOMAIN p.cache \ {r.key}
          /\ PolicySize(r.pol) = PolicySize(p) - 1

\* C36: for LRU, LFU and FIFO, evict() returns undefined only when the
\* policy holds no key; with a key resident it removes exactly one key,
\* returns it, and size() is one less.
C36_EvictFindsVictim == EvictTakesOne(evictionPolicy, PolicyEvict(evictionPolicy))

----------------------------------------------------------------------------
(* Further claims about the engine, checked under Spec *)

\* the engines one operation other than SET can make of e at time t
AfterNonSet(e, k, t) ==
    {e, exists(e, k, t).eng, delete(e, k).eng, cleanup(e, t).eng}
        \cup {updateTTL(e, k, ttl, t).eng : ttl \in 1..2}

\* no read of k on e at time t gives a stored value: GET and batch GET find
\* nothing and INCREMENT starts from the amount
Unreadable(e, k, t) ==
    /\ get(e, k, t).ret = NullVal
    /\ k \notin DOMAIN getMultiple(e, <<k>>, t).ret
    /\ increment(e, k, 1, t).ret = Num(1)

\* C37: once the expiration instant of an entry has passed, no later GET,
\* batch GET or INCREMENT reads its value unless the key is SET again; no
\* other operation, UPDATE-TTL on the expired and not yet removed entry
\* included, makes the value readable again.
C37_ExpiredValueStaysUnreadable ==
    \A k \in EngineKeys : \A t \in Later(now) :
        ExpiredAt(Eng, k, t) =>
            \A e2 \in AfterNonSet(Eng, k, t) : \A u \in t..(t + 1) :
                Unreadable(e2, k, u)

\* the engine after the removal of the expired entry of k: by a DELETE, or
\* by the lazy expiration of a read, which counts one expiration
ExpiredRemoved(e, k, t) == {delete(e, k).eng, exists(e, k, t).eng}

\* engines a and b hold the same entries, memory count, policy state and
\* counters
SameEngine(a, b) ==
    /\ Range(a.store) = Range(b.store)
    /\ a.currentMemoryBytes = b.currentMemoryBytes
    /\ a.evictionPolicy = b.evictionPolicy
    /\ a.stats = b.stats

\* C38: a SET on a key whose entry has expired but was not yet removed
\* leaves the engine as the removal of that entry followed by the SET of an
\* absent key does: the key has the policy position of a fresh insertion
\* and the counters are the same.
C38_SetOnExpiredIsFreshInsert ==
    \A k \in EngineKeys : \A t \in Later(now) :
        ExpiredAt(Eng, k, t) =>
            \A value \in {Num(1)}, ttl \in TTLs :
                \E r \in ExpiredRemoved(Eng, k, t) :
                    SameEngine(set(Eng, k, value, ttl, t), set(r, k, value, ttl, t))

\* the SET took e to r without an eviction: same keys, same counter
NothingEvicted(e, r) ==
    /\ StoreKeys(r.store) = StoreKeys(e.store)
    /\ r.stats.evictions = e.stats.evictions

\* C39: a SET that overwrites a resident key with an entry whose size is at
\* most the size of the entry it replaces evicts nothing: the resident keys
\* and the evictions counter are the same before and after, whatever
\* currentMemoryBytes was.
C39_ShrinkingOverwriteEvictsNothing ==
    \A k \in StoreKeys(store) : \A value \in SetValues, ttl \in TTLs :
        calculateEntrySize(k, value) <= StoreGet(store, k).size
            => NothingEvicted(Eng, set(Eng, k, value, ttl, now))

\* the body GET /api/get/:key answers with, g being the outcome of cache.get
getKeyBody(k, g) == [key |-> k, value |-> g.ret, exists |-> g.ret # NullVal]

\* the handler of GET /api/get/:key
getKeyRoute(e, k, t) == [eng |-> get(e, k, t).eng, body |-> getKeyBody(k, get(e, k, t))]

\* the route's exists flag for k on e agrees with EXISTS, and INCREMENT does
\* not start from its amount while the key holds something else
PresenceAgrees(e, k, t) ==
    /\ getKeyRoute(e, k, t).body.exists = exists(e, k, t).ret
    /\ (exists(e, k, t).ret /\ StoreGet(e.store, k).value.t # "num")
          => increment(e, k, 1, t).err

\* C40: for every key and every storable value, null included, the exists
\* flag of GET /api/get/:key is true exactly when the key is resident and
\* unexpired, as EXISTS answers in the same state; INCREMENT treats a key as
\* absent only when it is not resident or expired.
C40_ExistsFlagMatchesExists ==
    \A k \in EngineKeys : \A t \in Later(now) :
        /\ PresenceAgrees(Eng, k, t)
        /\ \A value \in StorableValues :
              PresenceAgrees(set(Eng, k, value, 0, now), k, t)

====
